---- MODULE Spec2Model ----
(***************************************************************************)
(* Model of the query router, the response cache and the handlers of the   *)
(* portfolio backend (backend/app/cache.py, backend/app/agents.py).        *)
(*                                                                         *)
(* Texts are sequences of one-character strings, so that lower(), strip()  *)
(* and the substring test `in` are computed on characters as Python does.  *)
(* A Python dict is a TLA+ function whose DOMAIN is the set of keys the    *)
(* dict holds: `"error" in result` is "error" \in DOMAIN result.           *)
(***************************************************************************)
EXTENDS Integers, Sequences, FiniteSets, TLC

VARIABLES
    cache,      \* QueryCache.cache: entries in dict (insertion) order
    hits,       \* QueryCache.hits
    misses,     \* QueryCache.misses
    now,        \* the wall clock read by time.time(), in ticks
    config,     \* settings / the clients built at construction
    last,       \* the last call made and what it returned
    setValue,   \* history: for each key stored, the value handed to its set
    fresh_sets, \* history: sets of keys not in the store since it was empty,
                \*   counted up to max_size + 1
    pure        \* history: no set replaced an entry and no get removed one

vars == <<cache, hits, misses, now, config, last, setValue, fresh_sets, pure>>

-----------------------------------------------------------------------------
(* Bounds of the model.  max_size and ttl_seconds are the constructor      *)
(* arguments of QueryCache, scaled down from (100, 3600).                  *)

max_size == 2
ttl_seconds == 2
MaxClock == ttl_seconds
MaxGets == 2
MaxLatency == 1
MaxCalls == 3

-----------------------------------------------------------------------------
(* Text primitives of Python's str.                                        *)

\* the lower-case letter of every upper-case letter
lower_of ==
    [A |-> "a", B |-> "b", C |-> "c", D |-> "d", E |-> "e", F |-> "f", G |-> "g",
     H |-> "h", I |-> "i", J |-> "j", K |-> "k", L |-> "l", M |-> "m", N |-> "n",
     O |-> "o", P |-> "p", Q |-> "q", R |-> "r", S |-> "s", T |-> "t", U |-> "u",
     V |-> "v", W |-> "w", X |-> "x", Y |-> "y", Z |-> "z"]

Whitespace == {" ", "\t", "\n", "\r"}

\* str.lower()
lower(s) ==
    [i \in 1..Len(s) |-> IF s[i] \in DOMAIN lower_of THEN lower_of[s[i]] ELSE s[i]]

RECURSIVE lstrip(_), rstrip(_)
\* str.lstrip()
lstrip(s) == IF s # << >> /\ Head(s) \in Whitespace THEN lstrip(Tail(s)) ELSE s
\* str.rstrip()
rstrip(s) ==
    IF s # << >> /\ s[Len(s)] \in Whitespace
    THEN rstrip(SubSeq(s, 1, Len(s) - 1))
    ELSE s

\* str.strip(): drops leading and trailing whitespace
strip(s) == rstrip(lstrip(s))

\* the substring test `p in s`
contains(s, p) ==
    \E i \in 0..(Len(s) - Len(p)) : \A j \in 1..Len(p) : s[i + j] = p[j]

-----------------------------------------------------------------------------
(* Texts of the source.                                                    *)

\* PortfolioAgent.name of the five handlers, and the offline identity
PROFILE_AGENT ==
    <<"P","r","o","f","i","l","e"," ","A","g","e","n","t">>
PROJECT_AGENT ==
    <<"P","r","o","j","e","c","t"," ","A","g","e","n","t">>
CAREER_AGENT ==
    <<"C","a","r","e","e","r"," ","A","g","e","n","t">>
DEMO_AGENT ==
    <<"D","e","m","o"," ","A","g","e","n","t">>
STRATEGIC_FIT_AGENT ==
    <<"S","t","r","a","t","e","g","i","c"," ","F","i","t"," ","A","g","e","n","t">>
PROFILE_AGENT_OFFLINE ==
    <<"P","r","o","f","i","l","e"," ","A","g","e","n","t"," ","(","O","f","f","l","i","n","e",
      ")">>

\* the fixed messages of the result dicts
MSG ==
    [NO_KEY |->
         <<"G","o","o","g","l","e"," ","A","P","I"," ","k","e","y"," ","n","o","t"," ","c","o","n",
         "f","i","g","u","r","e","d","."," ","P","l","e","a","s","e"," ","s","e","t"," ","G","O",
         "O","G","L","E","_","A","P","I","_","K","E","Y"," ","e","n","v","i","r","o","n","m","e",
         "n","t"," ","v","a","r","i","a","b","l","e",".">>,
     CONFIG_REQUIRED |->
         <<"C","o","n","f","i","g","u","r","a","t","i","o","n"," ","r","e","q","u","i","r","e","d">>,
     HIGH_DEMAND |->
         <<"I","'","m"," ","c","u","r","r","e","n","t","l","y"," ","e","x","p","e","r","i","e","n",
         "c","i","n","g"," ","h","i","g","h"," ","d","e","m","a","n","d","."," ","P","l","e","a",
         "s","e"," ","t","r","y"," ","a","g","a","i","n"," ","i","n"," ","a"," ","f","e","w"," ",
         "m","o","m","e","n","t","s",","," ","o","r"," ","a","s","k"," ","a"," ","s","i","m","p",
         "l","e","r"," ","q","u","e","s","t","i","o","n",".">>,
     RATE_LIMIT |->
         <<"R","a","t","e"," ","l","i","m","i","t"," ","r","e","a","c","h","e","d","."," ","P","l",
         "e","a","s","e"," ","w","a","i","t"," ","b","e","f","o","r","e"," ","r","e","t","r","y",
         "i","n","g",".">>,
     PROCESS_ERROR |->
         <<"I"," ","e","n","c","o","u","n","t","e","r","e","d"," ","a","n"," ","e","r","r","o","r",
         " ","w","h","i","l","e"," ","p","r","o","c","e","s","s","i","n","g"," ","y","o","u","r",
         " ","r","e","q","u","e","s","t","."," ","P","l","e","a","s","e"," ","t","r","y"," ","a",
         "g","a","i","n"," ","o","r"," ","c","o","n","t","a","c","t"," ","s","u","p","p","o","r",
         "t"," ","i","f"," ","t","h","e"," ","i","s","s","u","e"," ","p","e","r","s","i","s","t",
         "s",".">>,
     PROCESSING_ERROR_PREFIX |->
         <<"P","r","o","c","e","s","s","i","n","g"," ","e","r","r","o","r",":"," ">>,
     EMPTY_APOLOGY |->
         <<"I"," ","a","p","o","l","o","g","i","z","e",","," ","b","u","t"," ","I"," ","c","o","u",
         "l","d","n","'","t"," ","g","e","n","e","r","a","t","e"," ","a"," ","p","r","o","p","e",
         "r"," ","r","e","s","p","o","n","s","e","."," ","P","l","e","a","s","e"," ","t","r","y",
         " ","r","e","p","h","r","a","s","i","n","g"," ","y","o","u","r"," ","q","u","e","s","t",
         "i","o","n",".">>,
     EMPTY_RESPONSE |->
         <<"E","m","p","t","y"," ","r","e","s","p","o","n","s","e"," ","f","r","o","m"," ","A","I">>,
     ROUTER_ERROR |->
         <<"I"," ","e","n","c","o","u","n","t","e","r","e","d"," ","a","n"," ","e","r","r","o","r",
         " ","w","h","i","l","e"," ","p","r","o","c","e","s","s","i","n","g"," ","y","o","u","r",
         " ","r","e","q","u","e","s","t","."," ","P","l","e","a","s","e"," ","t","r","y"," ","a",
         "g","a","i","n",".">>,
     ROUTING_APOLOGY |->
         <<"I"," ","a","p","o","l","o","g","i","z","e",","," ","b","u","t"," ","I"," ","c","o","u",
         "l","d","n","'","t"," ","d","e","t","e","r","m","i","n","e"," ","t","h","e"," ","b","e",
         "s","t"," ","w","a","y"," ","t","o"," ","h","a","n","d","l","e"," ","y","o","u","r"," ",
         "r","e","q","u","e","s","t","."," ","P","l","e","a","s","e"," ","t","r","y"," ","r","e",
         "p","h","r","a","s","i","n","g"," ","y","o","u","r"," ","q","u","e","s","t","i","o","n",
         ".">>,
     ROUTING_ERROR |->
         <<"R","o","u","t","i","n","g"," ","e","r","r","o","r">>,
     I_ENCOUNTERED |->
         <<"I"," ","e","n","c","o","u","n","t","e","r","e","d"," ","a","n"," ","e","r","r","o","r">>,
     OFFLINE_SKILLS |->
         <<"H","e","r","e"," ","i","s"," ","a","n"," ","o","v","e","r","v","i","e","w"," ","o","f",
         " ","m","y"," ","t","e","c","h","n","i","c","a","l"," ","s","k","i","l","l","s",":","\n",
         "\n">>,
     OFFLINE_PROFILE |->
         <<"I"," ","a","m"," ","c","u","r","r","e","n","t","l","y"," ","o","p","e","r","a","t","i",
         "n","g"," ","i","n"," ","o","f","f","l","i","n","e"," ","m","o","d","e",","," ","b","u",
         "t"," ","h","e","r","e"," ","i","s"," ","m","y"," ","p","r","o","f","i","l","e"," ","s",
         "u","m","m","a","r","y",":","\n","\n">>,
     ATTRIBUTE_ERROR |->
         <<"'","S","e","t","t","i","n","g","s","'"," ","o","b","j","e","c","t"," ","h","a","s"," ",
         "n","o"," ","a","t","t","r","i","b","u","t","e"," ","'","c","a","c","h","e","_","e","n",
         "a","b","l","e","d","'">>,
     ANALYSIS_FAILED |->
         <<"A","n","a","l","y","s","i","s"," ","F","a","i","l","e","d">>,
     COULD_NOT_COMPLETE |->
         <<"C","o","u","l","d"," ","n","o","t"," ","c","o","m","p","l","e","t","e"," ","a","n","a",
         "l","y","s","i","s">>]
ZERO_PERCENT ==
    <<"0","%">>

\* keyword lists of RouterAgent._get_keyword_route
profile_keywords ==
    [high |->
         << <<"a","b","o","u","t">>,
         <<"w","h","o"," ","a","r","e"," ","y","o","u">>,
         <<"t","e","l","l"," ","m","e"," ","a","b","o","u","t"," ","y","o","u","r","s","e","l","f">>,
         <<"b","a","c","k","g","r","o","u","n","d">>,
         <<"e","d","u","c","a","t","i","o","n">> >>,
     medium |->
         << <<"p","r","o","f","i","l","e">>,
         <<"s","k","i","l","l","s">>,
         <<"e","x","p","e","r","i","e","n","c","e"," ","s","u","m","m","a","r","y">> >>]
project_keywords ==
    [high |->
         << <<"p","r","o","j","e","c","t">>,
         <<"g","i","t","h","u","b">>,
         <<"b","u","i","l","t">>,
         <<"d","e","v","e","l","o","p","e","d">>,
         <<"t","e","c","h","n","i","c","a","l">> >>,
     medium |->
         << <<"c","o","d","e">>,
         <<"i","m","p","l","e","m","e","n","t","a","t","i","o","n">>,
         <<"p","o","r","t","f","o","l","i","o">> >>]
career_keywords ==
    [high |->
         << <<"c","a","r","e","e","r"," ","a","d","v","i","c","e">>,
         <<"j","o","b"," ","s","e","a","r","c","h">>,
         <<"i","n","t","e","r","v","i","e","w"," ","p","r","e","p">> >>,
     medium |->
         << <<"c","a","r","e","e","r">>,
         <<"a","d","v","i","c","e">>,
         <<"d","e","v","e","l","o","p","m","e","n","t">> >>]
demo_keywords ==
    [high |->
         << <<"d","e","m","o">>,
         <<"l","i","v","e">>,
         <<"s","h","o","w"," ","m","e">>,
         <<"w","a","l","k","t","h","r","o","u","g","h">> >>,
     medium |->
         << <<"i","n","t","e","r","a","c","t","i","v","e">>,
         <<"d","e","m","o","n","s","t","r","a","t","i","o","n">> >>]
strategic_keywords ==
    [high |->
         << <<"j","o","b"," ","d","e","s","c","r","i","p","t","i","o","n">>,
         <<"r","e","q","u","i","r","e","m","e","n","t","s">>,
         <<"p","o","s","i","t","i","o","n">>,
         <<"r","o","l","e"," ","r","e","q","u","i","r","e","m","e","n","t","s">>,
         <<"f","i","t"," ","a","n","a","l","y","s","i","s">>,
         <<"a","n","a","l","y","z","e"," ","t","h","i","s"," ","j","o","b">> >>,
     medium |->
         << <<"a","n","a","l","y","z","e">>,
         <<"m","a","t","c","h">>,
         <<"q","u","a","l","i","f","i","c","a","t","i","o","n">>,
         <<"h","i","r","i","n","g">> >>]

\* keyword list of StrategicFitAgent._is_job_analysis_query
job_analysis_keywords ==
    << <<"j","o","b"," ","d","e","s","c","r","i","p","t","i","o","n">>,
       <<"r","e","q","u","i","r","e","m","e","n","t","s">>,
       <<"p","o","s","i","t","i","o","n">>,
       <<"r","o","l","e">>,
       <<"h","i","r","i","n","g">>,
       <<"j","o","b"," ","p","o","s","t","i","n","g">>,
       <<"a","n","a","l","y","z","e"," ","t","h","i","s">>,
       <<"f","i","t"," ","a","n","a","l","y","s","i","s">> >>

\* keywords of ProfileAgent.process and ProfileAgent._get_fallback_response
KW ==
    [skill |->
         <<"s","k","i","l","l">>,
     technolog |->
         <<"t","e","c","h","n","o","l","o","g">>,
     stack |->
         <<"s","t","a","c","k">>,
     education |->
         <<"e","d","u","c","a","t","i","o","n">>,
     degree |->
         <<"d","e","g","r","e","e">>,
     experience |->
         <<"e","x","p","e","r","i","e","n","c","e">>,
     work |->
         <<"w","o","r","k">>,
     project |->
         <<"p","r","o","j","e","c","t">>,
     mlops |->
         <<"m","l","o","p","s">>,
     ml |->
         <<"m","l">>,
     ai |->
         <<"a","i">>,
     http_429 |->
         <<"4","2","9">>,
     quota |->
         <<"q","u","o","t","a">>,
     rate_limit |->
         <<"r","a","t","e"," ","l","i","m","i","t">>]

-----------------------------------------------------------------------------
(* Inputs: the portfolio store, the queries, the replies of the remote     *)
(* model.                                                                  *)

\* the portfolio store: summaries and one featured project
STORE ==
    [profile_summary |->
         <<"A","d","a",","," ","M","L"," ","E","n","g","i","n","e","e","r">>,
     skills_summary |->
         <<"P","y","t","h","o","n",","," ","S","Q","L">>,
     profile |->
         <<"A","d","a",","," ","M","L"," ","E","n","g","i","n","e","e","r","."," ","B","u","i","l",
         "d","s"," ","M","L"," ","s","y","s","t","e","m","s">>,
     education |->
         <<"M","S"," ","f","r","o","m"," ","S","t","a","t","e"," ","U",","," ","G","P","A",":"," ",
         "4",".","0">>,
     competencies |->
         <<"C","o","r","e"," ","C","o","m","p","e","t","e","n","c","i","e","s">>,
     project_text |->
         <<"c","h","a","t","b","o","t"," ","s","u","p","p","o","r","t"," ","t","i","c","k","e","t",
         "s"," ","a","n","s","w","e","r"," ","q","u","e","s","t","i","o","n","s"," ","p","y","t",
         "h","o","n"," ","l","a","n","g","c","h","a","i","n">>,
     relevant |->
         <<"P","R","O","J","E","C","T",":"," ","C","h","a","t","b","o","t">>,
     featured |->
         <<"C","h","a","t","b","o","t",":"," ","a","n","s","w","e","r"," ","q","u","e","s","t","i",
         "o","n","s">>,
     projects |->
         <<"P","r","o","j","e","c","t",":"," ","C","h","a","t","b","o","t">>]

\* query texts
Q_PROJECTS ==
    <<"W","h","a","t"," ","p","r","o","j","e","c","t","s"," ","h","a","v","e"," ","y","o","u",
      " ","b","u","i","l","t","?">>
Q_BACKGROUND ==
    <<"T","e","l","l"," ","m","e"," ","a","b","o","u","t"," ","y","o","u","r"," ","b","a","c",
      "k","g","r","o","u","n","d"," ","a","n","d"," ","e","d","u","c","a","t","i","o","n">>
Q_CAREER ==
    <<"C","a","r","e","e","r"," ","a","d","v","i","c","e",":"," ","j","o","b"," ","s","e","a",
      "r","c","h"," ","a","n","d"," ","i","n","t","e","r","v","i","e","w"," ","p","r","e","p">>
Q_DEMO ==
    <<"S","h","o","w"," ","m","e"," ","a"," ","l","i","v","e"," ","d","e","m","o">>
Q_JOB ==
    <<"A","n","a","l","y","z","e"," ","t","h","i","s"," ","j","o","b"," ","d","e","s","c","r",
      "i","p","t","i","o","n",":"," ","r","e","q","u","i","r","e","m","e","n","t","s">>
Q_EMPTY ==
    <<>>
Q_HI_PADDED ==
    <<" ","H","i","\n">>
Q_BYE ==
    <<"B","y","e">>

\* the queries of the requests, and those of the direct calls of the cache
Queries == {Q_PROJECTS, Q_BACKGROUND, Q_CAREER, Q_DEMO, Q_JOB, Q_EMPTY}
CacheQueries == {Q_HI_PADDED, Q_BYE}
QueryTexts == Queries \cup CacheQueries

\* further questions put to route_query directly: a tie between project and
\* demo, scores of 2 and 2.5 points, upper-case letters, and no phrase at all
ROUTE_QUERIES ==
    [tie |-> <<"S","h","o","w"," ","m","e"," ","a"," ","p","r","o","j","e","c","t">>,
     two |-> <<"M","y"," ","b","a","c","k","g","r","o","u","n","d"," ","a","n","d"," ",
               "e","d","u","c","a","t","i","o","n">>,
     two_half |-> <<"A","b","o","u","t"," ","m","y"," ","b","a","c","k","g","r","o","u",
                    "n","d"," ","a","n","d"," ","s","k","i","l","l","s">>,
     cased |-> <<"G","i","t","H","u","b"," ","C","o","d","e">>,
     none |-> <<"H","e","l","l","o"," ","t","h","e","r","e">>]
RouteQueries == Queries \cup {ROUTE_QUERIES[k] : k \in DOMAIN ROUTE_QUERIES}

\* replies of the remote model, and the texts of the errors it raises
REPLY_OK ==
    <<" ","S","u","r","e","."," ">>
REPLY_BLANK ==
    <<" ","\n">>
REPLY_ECHO ==
    <<"I"," ","e","n","c","o","u","n","t","e","r","e","d"," ","a","n"," ","e","r","r","o","r">>
ERR_TIMEOUT ==
    <<"t","i","m","e","d"," ","o","u","t">>
ERR_429 ==
    <<"H","T","T","P"," ","4","2","9">>
ERR_QUOTA ==
    <<"Q","u","o","t","a"," ","e","x","c","e","e","d","e","d">>

\* replies of the router's verification call
V_CAREER ==
    <<" ","C","a","r","e","e","r","\n">>
V_RESUME ==
    <<"r","e","s","u","m","e">>

\* category names: the keys of RouterAgent.agents
cat_profile ==
    <<"p","r","o","f","i","l","e">>
cat_project ==
    <<"p","r","o","j","e","c","t">>
cat_career ==
    <<"c","a","r","e","e","r">>
cat_demo ==
    <<"d","e","m","o">>
cat_strategic_fit ==
    <<"s","t","r","a","t","e","g","i","c","_","f","i","t">>
SESSION_1 ==
    <<"s","1">>

\* handler identities of the router's own error results
AGENT_ERROR ==
    <<"e","r","r","o","r">>
AGENT_ROUTER_ERROR ==
    <<"r","o","u","t","e","r","_","e","r","r","o","r">>

\* keys of the structured payload of the strategic fit handler
K ==
    [kanban_data |->
         <<"k","a","n","b","a","n","_","d","a","t","a">>,
     summary_data |->
         <<"s","u","m","m","a","r","y","_","d","a","t","a">>,
     match_score |->
         <<"m","a","t","c","h","_","s","c","o","r","e">>,
     technicalSkills |->
         <<"t","e","c","h","n","i","c","a","l","S","k","i","l","l","s">>,
     relevantExperience |->
         <<"r","e","l","e","v","a","n","t","E","x","p","e","r","i","e","n","c","e">>,
     projectEvidence |->
         <<"p","r","o","j","e","c","t","E","v","i","d","e","n","c","e">>,
     quantifiableImpact |->
         <<"q","u","a","n","t","i","f","i","a","b","l","e","I","m","p","a","c","t">>,
     overallMatch |->
         <<"o","v","e","r","a","l","l","M","a","t","c","h">>,
     matchPercentage |->
         <<"m","a","t","c","h","P","e","r","c","e","n","t","a","g","e">>,
     executiveSummary |->
         <<"e","x","e","c","u","t","i","v","e","S","u","m","m","a","r","y">>,
     keyStrengths |->
         <<"k","e","y","S","t","r","e","n","g","t","h","s">>,
     competitiveAdvantages |->
         <<"c","o","m","p","e","t","i","t","i","v","e","A","d","v","a","n","t","a","g","e","s">>,
     interviewHighlights |->
         <<"i","n","t","e","r","v","i","e","w","H","i","g","h","l","i","g","h","t","s">>,
     processingTime |->
         <<"p","r","o","c","e","s","s","i","n","g","T","i","m","e">>,
     agentUsed |->
         <<"a","g","e","n","t","U","s","e","d">>]

-----------------------------------------------------------------------------
(* backend/app/cache.py: class QueryCache                                  *)

None == [is_none |-> TRUE, value |-> << >>]
Some(v) == [is_none |-> FALSE, value |-> v]

\* a variant of the key's query text that keeps the letter case
normalize_cased(query) == strip(query)

\* query.lower().strip(), computed once for the queries of the model
normalized == [q \in QueryTexts |-> strip(lower(q))]
normalize(query) ==
    IF query \in QueryTexts THEN normalized[query] ELSE strip(lower(query))

\* hashlib.md5 is taken to be injective: the key is the hashed content
generate_key(query, agent_name) == agent_name \o <<":">> \o normalize(query)

\* position of key in the dict, 0 when `key in self.cache` is false
index_of(c, key) ==
    IF \E i \in 1..Len(c) : c[i].key = key
    THEN CHOOSE i \in 1..Len(c) : c[i].key = key
    ELSE 0

\* del self.cache[key]
delete_at(c, i) == SubSeq(c, 1, i - 1) \o SubSeq(c, i + 1, Len(c))

\* a variant of oldest that picks the entry with the largest timestamp
oldest_newest(c) ==
    CHOOSE i \in 1..Len(c) :
        /\ \A j \in 1..Len(c) : c[i].timestamp >= c[j].timestamp
        /\ \A j \in 1..(i - 1) : c[j].timestamp < c[i].timestamp

\* min(self.cache.items(), key=timestamp): the first entry, in dict order,
\* among those with the smallest timestamp
oldest(c) ==
    CHOOSE i \in 1..Len(c) :
        /\ \A j \in 1..Len(c) : c[i].timestamp <= c[j].timestamp
        /\ \A j \in 1..(i - 1) : c[j].timestamp > c[i].timestamp

\* a variant of fresh that takes an entry of age ttl_seconds as fresh
fresh_inclusive(entry, t) == t - entry.timestamp <= ttl_seconds

\* is the entry younger than the ttl at time t
fresh(entry, t) == t - entry.timestamp < ttl_seconds

\* a variant of get that counts a hit as a miss
QueryCache_get_uncounted(c, h, m, query, agent_name, t) ==
    LET at(i) ==
            IF i # 0 /\ fresh(c[i], t)
            THEN [cache |-> c, hits |-> h, misses |-> m + 1,
                  ret |-> Some(c[i].response), expired |-> FALSE]
            ELSE [cache |-> IF i # 0 THEN delete_at(c, i) ELSE c,
                  hits |-> h, misses |-> m + 1,
                  ret |-> None, expired |-> i # 0]
    IN at(index_of(c, generate_key(query, agent_name)))

\* QueryCache.get: the new store and counters, and the returned value.
\* The value returned on a hit is the stored dict itself (alias = its key).
QueryCache_get(c, h, m, query, agent_name, t) ==
    LET at(i) ==
            IF i # 0 /\ fresh(c[i], t)
            THEN [cache |-> c, hits |-> h + 1, misses |-> m,
                  ret |-> Some(c[i].response), expired |-> FALSE]
            ELSE [cache |-> IF i # 0 THEN delete_at(c, i) ELSE c,
                  hits |-> h, misses |-> m + 1,
                  ret |-> None, expired |-> i # 0]
    IN at(index_of(c, generate_key(query, agent_name)))

\* a variant of the eviction step that waits until the store is over capacity
evict_late(c) == IF Len(c) > max_size THEN delete_at(c, oldest(c)) ELSE c

\* the eviction step of QueryCache.set
evict(c) == IF Len(c) >= max_size THEN delete_at(c, oldest(c)) ELSE c

\* QueryCache.set: the new store.  response.copy() copies the top level of
\* the dict, so the entry holds the value as it is at the time of the call.
QueryCache_set(c, query, agent_name, response, t) ==
    LET store(c1, key) ==
            LET entry == [key |-> key, response |-> response, timestamp |-> t]
                at(i) == IF i # 0 THEN [c1 EXCEPT ![i] = entry]
                         ELSE Append(c1, entry)
            IN at(index_of(c1, key))
    IN store(evict(c), generate_key(query, agent_name))

\* a variant of the hit rate that divides the hits by the misses
get_hit_rate_per_miss(h, m) == IF h + m > 0 THEN <<h, m>> ELSE <<0, 1>>

\* QueryCache.get_hit_rate, as the pair <<numerator, denominator>>
get_hit_rate(h, m) == IF h + m > 0 THEN <<h, h + m>> ELSE <<0, 1>>

keys_of(c) == {c[i].key : i \in 1..Len(c)}

-----------------------------------------------------------------------------
(* Python dicts and Optional[Dict] arguments.                              *)

\* an Optional[Dict] argument: None, or a dict
NoContext == [present |-> FALSE, map |-> << >>]
Context(d) == [present |-> TRUE, map |-> d]

\* a variant in which no context counts as given
never_truthy(context) == FALSE

\* truth value of `context`: None and {} are false
truthy(context) == context.present /\ DOMAIN context.map # {}

\* `context or {}`
or_empty(context) == IF truthy(context) THEN context.map ELSE << >>

\* d[k] = v
put(d, k, v) == (k :> v) @@ d

\* d.update(e): the entries of e replace those of d
update(d, e) == e @@ d

\* any(keyword in text for keyword in keywords)
any_in(text, keywords) == \E i \in 1..Len(keywords) : contains(text, keywords[i])

\* str.split(): the maximal runs of non-whitespace characters
split(s) ==
    LET starts == {i \in 1..Len(s) :
                     s[i] \notin Whitespace /\ (i = 1 \/ s[i - 1] \in Whitespace)}
        end_of(i) == CHOOSE j \in i..Len(s) :
                        /\ \A k \in i..j : s[k] \notin Whitespace
                        /\ (j = Len(s) \/ s[j + 1] \in Whitespace)
    IN {SubSeq(s, i, end_of(i)) : i \in starts}

-----------------------------------------------------------------------------
(* backend/app/agents.py: the handlers                                     *)

Categories == {cat_profile, cat_project, cat_career, cat_demo, cat_strategic_fit}

\* PortfolioAgent.name of the handler registered under a category
name_of(cat) ==
    CASE cat = cat_profile -> PROFILE_AGENT
      [] cat = cat_project -> PROJECT_AGENT
      [] cat = cat_career -> CAREER_AGENT
      [] cat = cat_demo -> DEMO_AGENT
      [] cat = cat_strategic_fit -> STRATEGIC_FIT_AGENT

\* a variant of the rate-limit test that compares the text as written
is_rate_limit_cased(error_str) ==
    \/ contains(error_str, KW.http_429)
    \/ contains(error_str, KW.quota)
    \/ contains(error_str, KW.rate_limit)

\* the rate-limit test of PortfolioAgent._process_uncached
is_rate_limit(error_str) ==
    \/ contains(error_str, KW.http_429)
    \/ contains(lower(error_str), KW.quota)
    \/ contains(lower(error_str), KW.rate_limit)

\* the result of _process_uncached when self.llm is None
no_client_result(name, processing_time) ==
    [response |-> MSG.NO_KEY,
     viewport_content |-> [type |-> "error", message |-> MSG.CONFIG_REQUIRED],
     agent_used |-> name,
     processing_time |-> processing_time]

\* the result of _process_uncached on a rate-limit error
rate_limit_result(name, processing_time) ==
    [response |-> MSG.HIGH_DEMAND,
     viewport_content |-> [type |-> "error", message |-> MSG.RATE_LIMIT,
                           retry_after |-> 60],
     agent_used |-> name,
     processing_time |-> processing_time,
     error_type |-> "rate_limit"]

\* the result of _process_uncached on any other error e
failure_result(name, processing_time, e) ==
    [response |-> MSG.PROCESS_ERROR,
     viewport_content |-> [type |-> "error",
                           message |-> MSG.PROCESSING_ERROR_PREFIX \o e,
                           agent |-> name],
     agent_used |-> name,
     processing_time |-> processing_time,
     error |-> e]

\* PortfolioAgent._parse_response
PortfolioAgent_parse_response(name, response, query, processing_time) ==
    IF response = << >> \/ strip(response) = << >>
    THEN [response |-> MSG.EMPTY_APOLOGY,
          viewport_content |-> [type |-> "error", message |-> MSG.EMPTY_RESPONSE,
                                agent |-> name],
          agent_used |-> name,
          processing_time |-> processing_time]
    ELSE [response |-> strip(response),
          viewport_content |-> [type |-> "text", agent |-> name,
                                content |-> strip(response)],
          agent_used |-> name,
          processing_time |-> processing_time]

\* ProfileAgent._get_fallback_response
fallback_response(query) ==
    LET query_lower == lower(query)
        content == IF \/ contains(query_lower, KW.skill)
                      \/ contains(query_lower, KW.stack)
                      \/ contains(query_lower, KW.technolog)
                   THEN MSG.OFFLINE_SKILLS \o STORE.skills_summary
                   ELSE MSG.OFFLINE_PROFILE \o STORE.profile_summary
    IN [response |-> content,
        viewport_content |-> [type |-> "text", agent |-> PROFILE_AGENT,
                              content |-> content],
        agent_used |-> PROFILE_AGENT_OFFLINE,
        processing_time |-> 0]

\* _get_fallback_response, computed once for the queries of the model
fallback_responses == [q \in Queries |-> fallback_response(q)]
get_fallback_response(query) ==
    IF query \in Queries THEN fallback_responses[query] ELSE fallback_response(query)

\* ProfileAgent._parse_response
ProfileAgent_parse_response(response, query, processing_time) ==
    LET parsed_response ==
            PortfolioAgent_parse_response(PROFILE_AGENT, response, query,
                                          processing_time)
    IN IF contains(parsed_response.response, MSG.I_ENCOUNTERED)
       THEN get_fallback_response(query)
       ELSE parsed_response

\* ProjectAgent._parse_response
ProjectAgent_parse_response(response, query, processing_time) ==
    LET base_response ==
            PortfolioAgent_parse_response(PROJECT_AGENT, response, query,
                                          processing_time)
    IN [base_response EXCEPT
          !.viewport_content =
              put(put(@, "type", "project_info"), "agent", PROJECT_AGENT)]

-----------------------------------------------------------------------------
(* json.loads, for the JSON subset of objects, arrays, strings without     *)
(* escapes, non-negative integers, true, false and null.  A JSON value is  *)
(* a record tagged by its type; any other text is a parse error.           *)

Digits == <<"0","1","2","3","4","5","6","7","8","9">>
is_digit(c) == \E d \in 1..10 : Digits[d] = c
digit_value(c) == (CHOOSE d \in 1..10 : Digits[d] = c) - 1

json_obj(f) == [t |-> "obj", v |-> f]
json_arr(q) == [t |-> "arr", v |-> q]
json_str(x) == [t |-> "str", v |-> x]
json_num(n) == [t |-> "num", v |-> n]
json_bool(b) == [t |-> "bool", v |-> b]
json_null == [t |-> "null", v |-> 0]

json_fail == [ok |-> FALSE, val |-> json_null, pos |-> 0]
json_ok(val, pos) == [ok |-> TRUE, val |-> val, pos |-> pos]

\* first position at or after i that holds no whitespace (Len(s) + 1 if none)
skip_ws(s, i) ==
    CHOOSE j \in i..(Len(s) + 1) :
        /\ \A k \in i..(j - 1) : s[k] \in Whitespace
        /\ (j = Len(s) + 1 \/ s[j] \notin Whitespace)

has_at(s, i, word) ==
    /\ i + Len(word) - 1 <= Len(s)
    /\ \A k \in 1..Len(word) : s[i + k - 1] = word[k]

\* a string literal opening at i
json_string(s, i) ==
    IF i > Len(s) \/ s[i] # "\"" \/ ~\E j \in (i + 1)..Len(s) : s[j] = "\""
    THEN json_fail
    ELSE LET j == CHOOSE j \in (i + 1)..Len(s) :
                     s[j] = "\"" /\ \A k \in (i + 1)..(j - 1) : s[k] # "\""
             body == SubSeq(s, i + 1, j - 1)
         IN IF \E k \in 1..Len(body) : body[k] \in {"\\", "\n", "\t", "\r"}
            THEN json_fail
            ELSE json_ok(json_str(body), j + 1)

RECURSIVE number_value(_)
number_value(ds) ==
    IF ds = << >> THEN 0
    ELSE 10 * number_value(SubSeq(ds, 1, Len(ds) - 1)) + digit_value(ds[Len(ds)])

\* a number opening at i
json_number(s, i) ==
    LET j == CHOOSE j \in i..(Len(s) + 1) :
                 /\ \A k \in i..(j - 1) : is_digit(s[k])
                 /\ (j = Len(s) + 1 \/ ~is_digit(s[j]))
    IN IF j = i \/ (j > i + 1 /\ s[i] = "0")
       THEN json_fail
       ELSE json_ok(json_num(number_value(SubSeq(s, i, j - 1))), j)

RECURSIVE json_value(_, _), json_members(_, _, _), json_elements(_, _, _)

\* the value opening at or after i
json_value(s, i0) ==
    LET i == skip_ws(s, i0) IN
    IF i > Len(s) THEN json_fail
    ELSE IF s[i] = "{" THEN
             LET k == skip_ws(s, i + 1) IN
             IF k <= Len(s) /\ s[k] = "}"
             THEN json_ok(json_obj(<< >>), k + 1)
             ELSE json_members(s, k, << >>)
    ELSE IF s[i] = "[" THEN
             LET k == skip_ws(s, i + 1) IN
             IF k <= Len(s) /\ s[k] = "]"
             THEN json_ok(json_arr(<< >>), k + 1)
             ELSE json_elements(s, k, << >>)
    ELSE IF s[i] = "\"" THEN json_string(s, i)
    ELSE IF is_digit(s[i]) THEN json_number(s, i)
    ELSE IF has_at(s, i, <<"t","r","u","e">>) THEN json_ok(json_bool(TRUE), i + 4)
    ELSE IF has_at(s, i, <<"f","a","l","s","e">>) THEN json_ok(json_bool(FALSE), i + 5)
    ELSE IF has_at(s, i, <<"n","u","l","l">>) THEN json_ok(json_null, i + 4)
    ELSE json_fail

\* the members of an object from position i on; acc holds those read so far
json_members(s, i, acc) ==
    LET key == json_string(s, i) IN
    IF ~key.ok THEN json_fail
    ELSE LET c == skip_ws(s, key.pos) IN
         IF c > Len(s) \/ s[c] # ":" THEN json_fail
         ELSE LET val == json_value(s, c + 1) IN
              IF ~val.ok THEN json_fail
              ELSE LET e == skip_ws(s, val.pos)
                       acc1 == put(acc, key.val.v, val.val)
                   IN IF e > Len(s) THEN json_fail
                      ELSE IF s[e] = "}" THEN json_ok(json_obj(acc1), e + 1)
                      ELSE IF s[e] = "," THEN json_members(s, skip_ws(s, e + 1), acc1)
                      ELSE json_fail

\* the elements of an array from position i on
json_elements(s, i, acc) ==
    LET val == json_value(s, i) IN
    IF ~val.ok THEN json_fail
    ELSE LET e == skip_ws(s, val.pos)
             acc1 == Append(acc, val.val)
         IN IF e > Len(s) THEN json_fail
            ELSE IF s[e] = "]" THEN json_ok(json_arr(acc1), e + 1)
            ELSE IF s[e] = "," THEN json_elements(s, e + 1, acc1)
            ELSE json_fail

\* json.loads(s): ok is FALSE where json.loads raises
json_loads(s) ==
    LET v == json_value(s, 1) IN
    IF v.ok /\ skip_ws(s, v.pos) = Len(s) + 1 THEN v ELSE json_fail

\* d.get(key, default) on a parsed object
json_get(obj, key, default) == IF key \in DOMAIN obj.v THEN obj.v[key] ELSE default

\* response[response.find("{") : response.rfind("}") + 1]
brace_slice(response) ==
    LET start == CHOOSE i \in 1..Len(response) :
                     response[i] = "{" /\ \A k \in 1..(i - 1) : response[k] # "{"
        end == CHOOSE i \in 1..Len(response) :
                     response[i] = "}" /\ \A k \in (i + 1)..Len(response) : response[k] # "}"
    IN SubSeq(response, start, end)

-----------------------------------------------------------------------------
(* StrategicFitAgent                                                       *)

\* StrategicFitAgent._is_job_analysis_query
job_analysis_query(query) == any_in(lower(query), job_analysis_keywords)

\* a variant in which every query counts as a job analysis
every_query_job_analysis(query) == TRUE

\* _is_job_analysis_query, computed once for the queries of the model
job_analysis_queries == {q \in Queries : job_analysis_query(q)}
is_job_analysis_query(query) ==
    IF query \in Queries THEN query \in job_analysis_queries
    ELSE job_analysis_query(query)

\* f"{processing_time:.1f}s" for a whole number of ticks
format_seconds(processing_time) ==
    IF processing_time < 10
    THEN <<Digits[processing_time + 1], ".", "0", "s">>
    ELSE <<"9", "9", ".", "0", "s">>

\* the default structure StrategicFitAgent._parse_response provides when the
\* JSON of the reply cannot be used
default_kanban_data ==
    json_obj((K.technicalSkills :> json_arr(<< >>)) @@
             (K.relevantExperience :> json_arr(<< >>)) @@
             (K.projectEvidence :> json_arr(<< >>)) @@
             (K.quantifiableImpact :> json_arr(<< >>)))

default_summary_data(processing_time) ==
    json_obj((K.overallMatch :> json_str(MSG.ANALYSIS_FAILED)) @@
             (K.matchPercentage :> json_num(0)) @@
             (K.executiveSummary :> json_str(MSG.COULD_NOT_COMPLETE)) @@
             (K.keyStrengths :> json_arr(<< >>)) @@
             (K.competitiveAdvantages :> json_arr(<< >>)) @@
             (K.interviewHighlights :> json_arr(<< >>)) @@
             (K.processingTime :> json_str(format_seconds(processing_time))) @@
             (K.agentUsed :> json_str(STRATEGIC_FIT_AGENT)))

\* does the logging line of the JSON branch raise:
\* len(structured_data.get('kanban_data', {}).get('technicalSkills', []))
kanban_log_raises(structured_data) ==
    LET kanban == json_get(structured_data, K.kanban_data, json_obj(<< >>)) IN
    \/ kanban.t # "obj"
    \/ json_get(kanban, K.technicalSkills, json_arr(<< >>)).t
           \notin {"arr", "obj", "str"}

\* base_response with the structured payload attached at both levels
with_payload(base_response, kanban, summary, match) ==
    [put(put(put(base_response, "kanban_data", kanban),
             "summary_data", summary), "match_score", match)
       EXCEPT !.viewport_content =
                  put(put(@, "kanban_data", kanban), "summary_data", summary)]

\* StrategicFitAgent._parse_response
StrategicFitAgent_parse_response(response, query, processing_time) ==
    LET base_response ==
            PortfolioAgent_parse_response(STRATEGIC_FIT_AGENT, response, query,
                                          processing_time)
        typed(type) ==
            [base_response EXCEPT
               !.viewport_content =
                   put(put(@, "type", type), "agent", STRATEGIC_FIT_AGENT)]
    IN IF is_job_analysis_query(query)
       THEN IF contains(response, <<"{">>) /\ contains(response, <<"}">>)
            THEN LET parsed == json_loads(brace_slice(response)) IN
                 IF parsed.ok /\ ~kanban_log_raises(parsed.val)
                 THEN with_payload(typed("strategic_fit_analysis"),
                          json_get(parsed.val, K.kanban_data, json_obj(<< >>)),
                          json_get(parsed.val, K.summary_data, json_obj(<< >>)),
                          json_get(parsed.val, K.match_score, json_str(ZERO_PERCENT)))
                 ELSE with_payload(typed("strategic_fit_analysis"),
                          default_kanban_data,
                          default_summary_data(processing_time),
                          json_str(ZERO_PERCENT))
            ELSE typed("strategic_fit_analysis")
       ELSE typed("strategic_analysis")

\* StrategicFitAgent._get_relevant_portfolio_data
get_relevant_portfolio_data(query) ==
    [profile |-> STORE.profile,
     skills |-> STORE.skills_summary,
     featured_projects |-> STORE.featured,
     competencies |-> STORE.competencies]

-----------------------------------------------------------------------------
(* Context assembly of ProfileAgent.process and ProjectAgent.process       *)

\* the targeted_context ProfileAgent.process builds from the query
targeted_context(query) ==
    LET query_lower == lower(query)
        basic == [profile |-> STORE.profile]
    IN IF \/ contains(query_lower, KW.skill)
          \/ contains(query_lower, KW.technolog)
          \/ contains(query_lower, KW.stack)
       THEN put(basic, "skills", STORE.skills_summary)
       ELSE IF contains(query_lower, KW.education) \/ contains(query_lower, KW.degree)
       THEN put(basic, "education", STORE.education)
       ELSE IF \/ contains(query_lower, KW.experience)
               \/ contains(query_lower, KW.work)
               \/ contains(query_lower, KW.project)
               \/ contains(query_lower, KW.mlops)
               \/ contains(query_lower, KW.ml)
               \/ contains(query_lower, KW.ai)
       THEN IF \E keyword \in split(query_lower) : contains(STORE.project_text, keyword)
            THEN put(basic, "relevant_examples", STORE.relevant)
            ELSE put(basic, "featured_projects", STORE.featured)
       ELSE basic

\* targeted_context, computed once for the queries of the model
targeted_contexts == [q \in Queries |-> targeted_context(q)]
profile_targeted_context(query) ==
    IF query \in Queries THEN targeted_contexts[query] ELSE targeted_context(query)

\* the value ProjectAgent.process stores under context["projects"]: the
\* store's one project is featured, so it is listed whether or not the query
\* names it
project_context(query) == STORE.projects

-----------------------------------------------------------------------------
(* PortfolioAgent.process and PortfolioAgent._process_uncached             *)

\* what the remote model does with a handler call: a reply or an error, and
\* the time it takes
LlmOutcomes ==
    {[raises |-> FALSE, text |-> REPLY_OK, latency |-> MaxLatency],
     [raises |-> FALSE, text |-> REPLY_BLANK, latency |-> 0],
     [raises |-> FALSE, text |-> REPLY_ECHO, latency |-> 0],
     [raises |-> TRUE, text |-> ERR_TIMEOUT, latency |-> MaxLatency],
     [raises |-> TRUE, text |-> ERR_429, latency |-> 0],
     [raises |-> TRUE, text |-> ERR_QUOTA, latency |-> 0]}

\* what the remote model does with the verification call
VerifyOutcomes ==
    {[raises |-> FALSE, text |-> V_CAREER, latency |-> 0],
     [raises |-> FALSE, text |-> V_RESUME, latency |-> 0],
     [raises |-> TRUE, text |-> ERR_TIMEOUT, latency |-> 0]}

\* the outcome of a call that is not made
NoCall == [raises |-> FALSE, text |-> << >>, latency |-> 0]

\* the _parse_response of the handler's class
parse_response(cat, response, query, processing_time) ==
    CASE cat = cat_profile ->
             ProfileAgent_parse_response(response, query, processing_time)
      [] cat = cat_project ->
             ProjectAgent_parse_response(response, query, processing_time)
      [] cat = cat_strategic_fit ->
             StrategicFitAgent_parse_response(response, query, processing_time)
      [] OTHER ->
             PortfolioAgent_parse_response(name_of(cat), response, query,
                                           processing_time)

\* self._parse_response(response.content, query, processing_time), computed
\* once for the handlers, replies and queries of the model
parsed_responses ==
    [x \in Categories \X {l \in LlmOutcomes \cup {NoCall} : ~l.raises} \X Queries |->
        parse_response(x[1], x[2].text, x[3], x[2].latency)]
parsed_response(cat, llm, query) == parsed_responses[<<cat, llm, query>>]

\* PortfolioAgent._process_uncached.  llm is the outcome the remote model has
\* for this call: [raises, text, latency].  called tells whether the remote
\* model was called.
process_uncached(cat, query, context, has_llm, llm) ==
    IF ~has_llm
    THEN [result |-> no_client_result(name_of(cat), llm.latency), called |-> FALSE]
    ELSE [called |-> TRUE,
          result |->
             IF llm.raises
             THEN IF is_rate_limit(llm.text)
                  THEN rate_limit_result(name_of(cat), llm.latency)
                  ELSE failure_result(name_of(cat), llm.latency, llm.text)
             ELSE parsed_response(cat, llm, query)]

\* the condition under which PortfolioAgent.process writes the result to the
\* cache: `"error" not in result` (no context and caching enabled are tested
\* by the caller)
cacheable(result) == "error" \notin DOMAIN result

\* what a call of process returns to the router: the result or the exception
\* raised, the cache and counters after the call, the cache and remote-model
\* events in order, whether the result is the dict stored in the cache
\* (alias), and the context sent to the remote model
Outcome(raised, exc, result, c, h, m, events, alias, sent, written) ==
    [raised |-> raised, exc |-> exc, result |-> result,
     cache |-> c, hits |-> h, misses |-> m,
     events |-> events, alias |-> alias, sent |-> sent, written |-> written]

\* PortfolioAgent.process.  settings.cache_enabled is read only when the
\* context is falsy (`not context and settings.cache_enabled`); reading it
\* raises AttributeError when Settings declares no such field.
PortfolioAgent_process(cat, query, context, c, h, m, t, cfg, llm) ==
    IF ~truthy(context) /\ cfg.cache_enabled = "undefined"
    THEN Outcome(TRUE, MSG.ATTRIBUTE_ERROR, << >>, c, h, m, << >>, FALSE,
                 NoContext, FALSE)
    ELSE
    LET use_cache == ~truthy(context) /\ cfg.cache_enabled = "on"
        name == name_of(cat)
        looked == IF use_cache THEN <<"cache_get">> ELSE << >>
        \* g is what the lookup returned, u what _process_uncached returns
        \* when the lookup did not end the call
        after(g, u) ==
            IF use_cache /\ ~g.ret.is_none /\ DOMAIN g.ret.value # {}
            THEN \* `cached` is the stored dict: the two assignments change
                 \* the entry
                 LET i == index_of(g.cache, generate_key(query, name))
                     cached == put(put(g.ret.value, "cached", TRUE),
                                   "processing_time", 0)
                 IN Outcome(FALSE, << >>, cached,
                            [g.cache EXCEPT ![i].response = cached],
                            g.hits, g.misses, looked, TRUE, NoContext, FALSE)
            ELSE LET write == use_cache /\ cacheable(u.result)
                 IN Outcome(FALSE, << >>, u.result,
                            IF write
                            THEN QueryCache_set(g.cache, query, name, u.result,
                                                t + llm.latency)
                            ELSE g.cache,
                            g.hits, g.misses,
                            looked \o (IF u.called THEN <<"llm_call">> ELSE << >>)
                                   \o (IF write THEN <<"cache_set">> ELSE << >>),
                            FALSE,
                            IF u.called THEN Context(or_empty(context))
                            ELSE NoContext,
                            write)
    IN after(IF use_cache THEN QueryCache_get(c, h, m, query, name, t)
             ELSE [cache |-> c, hits |-> h, misses |-> m, ret |-> None,
                   expired |-> FALSE],
             process_uncached(cat, query, context, cfg.agent_llm, llm))

\* a variant in which ProfileAgent.process runs the base process a second
\* time
ProfileAgent_process_twice(query, context, c, h, m, t, cfg, llm) ==
    LET again(r) == [r EXCEPT !.events = @ \o @]
    IN again(PortfolioAgent_process(cat_profile, query,
                 Context(update(or_empty(context), profile_targeted_context(query))),
                 c, h, m, t, cfg, llm))

\* ProfileAgent.process
ProfileAgent_process(query, context, c, h, m, t, cfg, llm) ==
    LET full_context == update(or_empty(context), profile_targeted_context(query))
        guarded(r) ==
            IF r.raised
            THEN [r EXCEPT !.raised = FALSE, !.exc = << >>,
                           !.result = get_fallback_response(query)]
            ELSE r
    IN guarded(PortfolioAgent_process(cat_profile, query, Context(full_context),
                                      c, h, m, t, cfg, llm))

\* a variant in which ProjectAgent.process passes the caller's context on
\* as it is
ProjectAgent_process_plain(query, context, c, h, m, t, cfg, llm) ==
    PortfolioAgent_process(cat_project, query, context, c, h, m, t, cfg, llm)

\* ProjectAgent.process
ProjectAgent_process(query, context, c, h, m, t, cfg, llm) ==
    PortfolioAgent_process(cat_project, query,
        Context(put(or_empty(context), "projects", project_context(query))),
        c, h, m, t, cfg, llm)

\* StrategicFitAgent.process
StrategicFitAgent_process(query, context, c, h, m, t, cfg, llm) ==
    PortfolioAgent_process(cat_strategic_fit, query,
        IF is_job_analysis_query(query)
        THEN Context(update(or_empty(context), get_relevant_portfolio_data(query)))
        ELSE context,
        c, h, m, t, cfg, llm)

\* agent.process(query, context) for the handler registered under cat
agent_process(cat, query, context, c, h, m, t, cfg, llm) ==
    CASE cat = cat_profile -> ProfileAgent_process(query, context, c, h, m, t, cfg, llm)
      [] cat = cat_project -> ProjectAgent_process(query, context, c, h, m, t, cfg, llm)
      [] cat = cat_strategic_fit ->
             StrategicFitAgent_process(query, context, c, h, m, t, cfg, llm)
      [] OTHER -> PortfolioAgent_process(cat, query, context, c, h, m, t, cfg, llm)

-----------------------------------------------------------------------------
(* RouterAgent                                                             *)

\* a variant in which the score is divided by the length of the query
score_density(query_lower, high, medium) ==
    (100 * (2 * Cardinality({i \in 1..Len(high) : contains(query_lower, high[i])})
              + Cardinality({i \in 1..Len(medium) : contains(query_lower, medium[i])})))
        \div (Len(query_lower) + 1)

\* the score of one category, in half points: 2 for every "high" phrase and
\* 1 for every "medium" phrase found in the lower-cased query
score(query_lower, high, medium) ==
    2 * Cardinality({i \in 1..Len(high) : contains(query_lower, high[i])})
      + Cardinality({i \in 1..Len(medium) : contains(query_lower, medium[i])})

\* the categories in the order of the scores dict
category_order == <<cat_profile, cat_project, cat_career, cat_demo, cat_strategic_fit>>

\* the scores dict of _get_keyword_route, by position in category_order
scores(query) ==
    LET query_lower == lower(query) IN
    << score(query_lower, profile_keywords.high, profile_keywords.medium),
       score(query_lower, project_keywords.high, project_keywords.medium),
       score(query_lower, career_keywords.high, career_keywords.medium),
       score(query_lower, demo_keywords.high, demo_keywords.medium),
       score(query_lower, strategic_keywords.high, strategic_keywords.medium) >>

\* a variant in which the last category with the highest score is taken
best_agent_last(sc) ==
    CHOOSE i \in 1..5 :
        /\ \A j \in 1..5 : sc[i] >= sc[j]
        /\ \A j \in (i + 1)..5 : sc[j] < sc[i]

\* max(scores.items(), key=score): the first category with the highest score
best_agent(sc) ==
    CHOOSE i \in 1..5 :
        /\ \A j \in 1..5 : sc[i] >= sc[j]
        /\ \A j \in 1..(i - 1) : sc[j] < sc[i]

\* RouterAgent._get_keyword_route.  confidence = min(score / 3.0, 1.0) is kept
\* as conf6 = 6 * confidence = min(half points, 6)
keyword_route(query) ==
    LET sc == scores(query)
        best == best_agent(sc)
    IN [agent |-> IF sc[best] > 0 THEN category_order[best] ELSE cat_profile,
        conf6 |-> IF sc[best] < 6 THEN sc[best] ELSE 6]

\* _get_keyword_route, computed once for the queries of the model
keyword_routes == [q \in RouteQueries |-> keyword_route(q)]

\* a variant in which the classifier gives up once the cache has been read
get_keyword_route_counting(query) ==
    IF hits + misses > 0 THEN [agent |-> cat_profile, conf6 |-> 0]
    ELSE keyword_routes[query]

\* _get_keyword_route(query), looked up for the queries of the model
get_keyword_route(query) ==
    IF query \in RouteQueries THEN keyword_routes[query] ELSE keyword_route(query)

\* a variant in which the fast path needs confidence > 0.9
high_confidence_strict(route) == 10 * route.conf6 > 54

\* confidence > 0.8, on conf6
high_confidence(route) == 10 * route.conf6 > 48

\* a variant in which the reply of the verification call is compared as it is
route_query_verbatim(query, cfg, verify) ==
    LET decide(route) ==
            IF high_confidence(route) \/ ~cfg.router_llm
            THEN [agent |-> route.agent, called |-> FALSE, keyword |-> route]
            ELSE [agent |-> IF ~verify.raises /\ verify.text \in Categories
                            THEN verify.text ELSE route.agent,
                  called |-> TRUE, keyword |-> route]
    IN decide(get_keyword_route(query))

\* a variant in which the name the verification call replied is returned
\* without looking it up in self.agents
route_query_unchecked(query, cfg, verify) ==
    LET decide(route) ==
            IF high_confidence(route) \/ ~cfg.router_llm
            THEN [agent |-> route.agent, called |-> FALSE, keyword |-> route]
            ELSE [agent |-> IF ~verify.raises THEN lower(strip(verify.text))
                            ELSE route.agent,
                  called |-> TRUE, keyword |-> route]
    IN decide(get_keyword_route(query))

\* RouterAgent.route_query.  verify is the outcome the remote model has for
\* the verification call: [raises, text, latency].  agent is the name
\* returned, called tells whether the verification call was made and keyword
\* is the local `route`.
route_query(query, cfg, verify) ==
    LET returns(route, agent, called) ==
            [agent |-> agent, called |-> called, keyword |-> route]
        verified(route, agent_name) ==
            IF agent_name \in Categories
            THEN returns(route, agent_name, TRUE)
            ELSE returns(route, route.agent, TRUE)
        decide(route) ==
            IF high_confidence(route) THEN returns(route, route.agent, FALSE)
            ELSE IF ~cfg.router_llm THEN returns(route, route.agent, FALSE)
            ELSE IF verify.raises THEN returns(route, route.agent, TRUE)
            ELSE verified(route, lower(strip(verify.text)))
    IN decide(get_keyword_route(query))

\* the result process_query builds when the exception e reaches its boundary
router_boundary_result(e, processing_time) ==
    [response |-> MSG.ROUTER_ERROR,
     viewport_content |-> [type |-> "error", message |-> e],
     agent_used |-> AGENT_ERROR,
     processing_time |-> processing_time]

\* the result process_query builds when no handler is registered
agent_not_found_result(processing_time) ==
    [response |-> MSG.ROUTING_APOLOGY,
     viewport_content |-> [type |-> "error", message |-> MSG.ROUTING_ERROR],
     agent_used |-> AGENT_ROUTER_ERROR,
     processing_time |-> processing_time]

\* a variant in which process_query has no except clause
except_nothing(raised) == FALSE

\* `except Exception as e` of process_query: every exception raised in its
\* try block is caught
except_Exception(raised) == raised

\* RouterAgent.process_query, started at time t.  propagated tells whether an
\* exception leaves process_query; elapsed is the time the call took.
process_query(query, context, c, h, m, t, cfg, verify, llm) ==
    LET \* route is what route_query returned, r what the handler's process
        \* returned or raised when a handler is registered for the route
        routed(route, waited, r) ==
            IF route.agent \notin Categories
            THEN [propagated |-> FALSE, result |-> agent_not_found_result(waited),
                  cache |-> c, hits |-> h, misses |-> m,
                  events |-> IF route.called THEN <<"verify_call">> ELSE << >>,
                  routed |-> route.agent, verified |-> route.called,
                  keyword |-> route.keyword, exc |-> << >>,
                  sent |-> NoContext, written |-> FALSE, stored |-> << >>,
                  alias |-> FALSE, caught |-> FALSE, uncached |-> FALSE,
                  elapsed |-> waited]
            ELSE
            LET elapsed == waited + (IF r.raised \/ r.alias THEN 0 ELSE llm.latency)
                caught == except_Exception(r.raised)
                result == IF r.raised
                          THEN IF caught THEN router_boundary_result(r.exc, elapsed)
                               ELSE << >>
                          ELSE put(put(r.result, "routed_to", route.agent),
                                   "total_processing_time", elapsed)
            IN [propagated |-> r.raised /\ ~caught, result |-> result,
                \* on a hit `result` is the stored dict: the router's two
                \* assignments change the entry as well
                cache |-> IF r.alias
                          THEN LET i == index_of(r.cache,
                                            generate_key(query, name_of(route.agent)))
                               IN [r.cache EXCEPT ![i].response = result]
                          ELSE r.cache,
                hits |-> r.hits, misses |-> r.misses,
                events |-> (IF route.called THEN <<"verify_call">> ELSE << >>)
                           \o r.events,
                routed |-> route.agent, verified |-> route.called,
                keyword |-> route.keyword,
                exc |-> IF r.raised THEN r.exc ELSE << >>,
                sent |-> r.sent, written |-> r.written,
                stored |-> IF r.written THEN r.result ELSE << >>,
                alias |-> r.alias, caught |-> caught,
                uncached |-> ~r.raised /\ ~r.alias, elapsed |-> elapsed]
        verify_time == IF route_query(query, cfg, verify).called
                       THEN verify.latency ELSE 0
    IN routed(route_query(query, cfg, verify), verify_time,
              agent_process(route_query(query, cfg, verify).agent, query, context,
                            c, h, m, t + verify_time, cfg, llm))

-----------------------------------------------------------------------------
(* Inputs of the calls.                                                    *)

\* the context argument of a request: None, {}, and a dict with a session id
\* and the keys "profile" and "projects", which handlers assemble too
Contexts ==
    {NoContext, Context(<< >>),
     Context([session_id |-> SESSION_1, profile |-> <<"m","i","n","e">>,
              projects |-> <<"m","i","n","e">>])}

\* the settings and clients a process can be started with: cache_enabled is
\* "undefined" when Settings declares no such field; the handlers' client and
\* the router's client exist when settings.has_google_api
Configs ==
    {[cache_enabled |-> ce, agent_llm |-> api, router_llm |-> api] :
        ce \in {"on", "off", "undefined"}, api \in BOOLEAN}

\* direct calls of the cache
CacheAgents == {CAREER_AGENT, DEMO_AGENT}
\* the values set is called with: the handler's result for a reply and, for
\* one key, a second result
CacheValues(query, agent_name) ==
    {PortfolioAgent_parse_response(agent_name, REPLY_OK, query, MaxLatency)}
    \cup (IF query = Q_HI_PADDED /\ agent_name = CAREER_AGENT
          THEN {PortfolioAgent_parse_response(agent_name, REPLY_BLANK, query, 0)}
          ELSE {})

-----------------------------------------------------------------------------
(* The state machine.                                                      *)

\* the history of set values, kept for the keys the store c holds
history(h, c) == [k \in keys_of(c) \cap DOMAIN h |-> h[k]]

Init ==
    /\ cache = << >>
    /\ hits = 0
    /\ misses = 0
    /\ now = 0
    /\ config \in Configs
    /\ last = [op |-> "none"]
    /\ setValue = << >>
    /\ fresh_sets = 0
    /\ pure = TRUE

\* time passes between calls
Tick ==
    /\ now < MaxClock
    /\ now' = now + 1
    /\ UNCHANGED <<cache, hits, misses, config, last, setValue, fresh_sets, pure>>

\* the outcomes the verification call can have in a request: one is drawn
\* only when route_query makes the call
verify_outcomes(query) ==
    IF route_query(query, config, NoCall).called THEN VerifyOutcomes ELSE {NoCall}

\* the questions the next request can carry: the requests of a run repeat
\* one question, the runs differ in the question
next_queries ==
    IF last.op = "process_query" THEN {last.query} ELSE Queries

\* one call of RouterAgent.process_query
ProcessQuery ==
    \E query \in next_queries, context \in Contexts :
    \E verify \in verify_outcomes(query) :
    \E llm \in LlmOutcomes \cup {NoCall} :
    \E r \in {process_query(query, context, cache, hits, misses, now,
                             config, verify, llm)} :
        LET key == generate_key(query, name_of(r.routed))
        IN \* an outcome of the handler's call is drawn only when the
           \* handler goes past the cache lookup
           /\ r.uncached <=> llm # NoCall
           /\ now + r.elapsed <= MaxClock
           /\ r.hits + r.misses <= MaxGets
           /\ cache' = r.cache
           /\ hits' = r.hits
           /\ misses' = r.misses
           /\ now' = now + r.elapsed
           /\ last' = [op |-> "process_query", query |-> query,
                       context |-> context, time |-> now,
                       elapsed |-> r.elapsed,
                       llm_raises |-> llm.raises, llm_text |-> llm.text,
                       propagated |-> r.propagated, result |-> r.result,
                       events |-> r.events, routed |-> r.routed,
                       keyword |-> r.keyword,
                       verify_raises |-> verify.raises,
                       verify_text |-> verify.text,
                       sent |-> r.sent, caught |-> r.caught,
                       \* every request so far went to the profile or the
                       \* project handler
                       only_context_adders |->
                           /\ last.op = "process_query" => last.only_context_adders
                           /\ r.routed \in {cat_profile, cat_project}]
           /\ setValue' = history(IF r.written THEN put(setValue, key, r.stored)
                                   ELSE setValue, r.cache)
           /\ UNCHANGED <<config, fresh_sets, pure>>

\* the number of direct calls of get since the last clear (or since
\* construction), as recorded by the calls
gets_since_clear == IF "gets" \in DOMAIN last THEN last.gets ELSE 0

\* the call QueryCache.get(query, agent_name)
GetCall(query, agent_name) ==
    \E g \in {QueryCache_get(cache, hits, misses, query, agent_name, now)} :
    /\ hits + misses < MaxGets
    /\ cache' = g.cache
    /\ hits' = g.hits
    /\ misses' = g.misses
    /\ last' = [op |-> "get", query |-> query, agent_name |-> agent_name,
                ret |-> g.ret, expired |-> g.expired,
                after_set |-> /\ last.op = "set"
                              /\ last.query = query
                              /\ last.agent_name = agent_name,
                \* the set just before this get was made for the same
                \* handler with another spelling of the query
                respelled |-> /\ last.op = "set"
                              /\ last.agent_name = agent_name
                              /\ last.query # query
                              /\ strip(lower(last.query)) = strip(lower(query)),
                gets |-> gets_since_clear + 1]
    /\ setValue' = history(setValue, g.cache)
    /\ pure' = (pure /\ ~g.expired)
    /\ UNCHANGED <<now, config, fresh_sets>>

\* the call QueryCache.set(query, agent_name, response)
SetCall(query, agent_name, response) ==
    \E key \in {generate_key(query, agent_name)} :
    /\ cache' = QueryCache_set(cache, query, agent_name, response, now)
    /\ last' = [op |-> "set", query |-> query, agent_name |-> agent_name,
                \* the entry this call evicts was returned by the get
                \* just before it
                evicted_read |-> /\ Len(cache) >= max_size
                                 /\ last.op = "get"
                                 /\ ~last.ret.is_none
                                 /\ generate_key(last.query, last.agent_name)
                                        = cache[oldest(cache)].key,
                gets |-> gets_since_clear]
    /\ setValue' = history(put(setValue, key, response), cache')
    /\ fresh_sets' = IF key \in keys_of(cache) \/ fresh_sets > max_size
                     THEN fresh_sets ELSE fresh_sets + 1
    /\ pure' = (pure /\ key \notin keys_of(cache))
    /\ UNCHANGED <<hits, misses, now, config>>

\* one direct call of QueryCache.get
Get == \E query \in CacheQueries, agent_name \in CacheAgents : GetCall(query, agent_name)

\* one direct call of QueryCache.set
Set ==
    \E query \in CacheQueries, agent_name \in CacheAgents :
        \E response \in CacheValues(query, agent_name) :
            SetCall(query, agent_name, response)

\* one direct call of QueryCache.clear
Clear ==
    /\ cache' = << >>
    /\ hits' = 0
    /\ misses' = 0
    /\ last' = [op |-> "clear", gets |-> 0]
    /\ setValue' = << >>
    /\ fresh_sets' = 0
    /\ pure' = TRUE
    /\ UNCHANGED <<now, config>>

\* requests arriving at the router
Next == ProcessQuery \/ Tick

Spec == Init /\ [][Next]_vars

\* a client of the cache calling it directly
InitCache ==
    /\ Init
    /\ config = [cache_enabled |-> "on", agent_llm |-> TRUE, router_llm |-> TRUE]

SpecCache == InitCache /\ [][Get \/ Set \/ Clear \/ Tick]_vars

\* a client of the cache calling it with two spellings of one query and
\* another query, the two spellings for two handlers
SpecSpelling ==
    InitCache /\ [][\/ Tick
                    \/ \E query \in CacheQueries \cup {<<"h","I">>} :
                       \E agent_name \in IF query = Q_BYE THEN {CAREER_AGENT}
                                         ELSE CacheAgents :
                           \/ GetCall(query, agent_name)
                           \/ \E response \in CacheValues(query, agent_name) :
                                  SetCall(query, agent_name, response)]_vars

\* the replies _parse_response is called with directly: the handlers'
\* replies and replies with braces
JSON_REPLIES ==
    [invalid |-> <<"{","o","o","p","s","}">>,
     reversed |-> <<"}"," ","{">>,
     match_only |-> <<"F","i","t",":"," ","{","\"","m","a","t","c","h","_","s","c","o",
                      "r","e","\"",":"," ","\"","8","0","%","\"","}"," ","d","o","n","e">>,
     kanban_list |-> <<"{","\"","k","a","n","b","a","n","_","d","a","t","a","\"",":",
                       " ","[","1","]","}">>]
ParseReplies ==
    {REPLY_OK, REPLY_BLANK, REPLY_ECHO, << >>}
    \cup {JSON_REPLIES[k] : k \in DOMAIN JSON_REPLIES}

\* a direct call of a handler's _parse_response
ParseCall ==
    \E cat \in Categories, response \in ParseReplies, query \in Queries,
       processing_time \in 0..MaxLatency :
        /\ last' = [op |-> "parse_response", cat |-> cat, response |-> response,
                    query |-> query, processing_time |-> processing_time,
                    result |-> parse_response(cat, response, query,
                                              processing_time)]
        /\ UNCHANGED <<cache, hits, misses, now, config, setValue, fresh_sets, pure>>

\* a client of the handlers calling _parse_response directly
InitParse ==
    /\ Init
    /\ config = [cache_enabled |-> "on", agent_llm |-> TRUE, router_llm |-> TRUE]

SpecParse == InitParse /\ [][ParseCall]_vars

\* the (agent, keywords) pairs _get_keyword_route iterates over, in order
category_keywords ==
    <<profile_keywords, project_keywords, career_keywords, demo_keywords,
      strategic_keywords>>

\* further replies of the verification call: every category name, a name
\* in upper case and an empty reply
RouteVerifyOutcomes ==
    VerifyOutcomes
    \cup {[raises |-> FALSE, text |-> c, latency |-> 0] : c \in Categories}
    \cup {[raises |-> FALSE, text |-> <<"D","E","M","O">>, latency |-> 0],
          [raises |-> FALSE, text |-> << >>, latency |-> 0]}

\* what a direct call of route_query leaves in `last`: the question, its
\* scores, the keyword route, what the verification call did and the
\* category returned (rq is what route_query returned); extended tells whether a
\* phrase was added to the question, added is the phrase's category and
\* before the scores of the question without it
route_record(query, verify, rq, extended, added, before) ==
    [op |-> "route_query", query |-> query,
     scores |-> scores(query), keyword |-> rq.keyword,
     has_client |-> config.router_llm,
     verify_raises |-> verify.raises, verify_text |-> verify.text,
     agent |-> rq.agent, called |-> rq.called,
     extended |-> extended, added |-> added, before |-> before]

\* a direct call of RouterAgent.route_query, the first of a run
RouteCall ==
    /\ last.op = "none"
    /\ \E query \in RouteQueries :
       \E verify \in IF route_query(query, config, NoCall).called
                     THEN RouteVerifyOutcomes ELSE {NoCall} :
           last' = route_record(query, verify, route_query(query, config, verify),
                                FALSE, 0, << >>)
    /\ UNCHANGED <<cache, hits, misses, now, config, setValue, fresh_sets, pure>>

\* a direct call of route_query with the last question extended, in front or
\* at the end, by one "high" phrase of a category; the verification call, if
\* made, times out
ExtendCall ==
    /\ last.op = "route_query"
    /\ ~last.extended
    /\ \E a \in 1..Len(category_keywords), front \in BOOLEAN :
       \E i \in 1..Len(category_keywords[a].high) :
       \E query \in {IF front
                     THEN category_keywords[a].high[i] \o <<" ">> \o last.query
                     ELSE last.query \o <<" ">> \o category_keywords[a].high[i]} :
       \E verify \in {[raises |-> TRUE, text |-> ERR_TIMEOUT, latency |-> 0]} :
           last' = route_record(query, verify, route_query(query, config, verify),
                                TRUE, a, last.scores)
    /\ UNCHANGED <<cache, hits, misses, now, config, setValue, fresh_sets, pure>>

\* a client of the router calling route_query directly
InitRoute ==
    /\ Init
    /\ config.cache_enabled = "on"

NextRoute == RouteCall \/ ExtendCall

SpecRoute == InitRoute /\ [][NextRoute]_vars

-----------------------------------------------------------------------------
(* backend/main.py: chat_endpoint                                          *)

\* max_length of MessageRequest.message, and the limit chat_endpoint tests
max_length == 10000

\* the texts of chat_endpoint
CHAT ==
    [PROVIDE |->
         <<"P","l","e","a","s","e"," ","p","r","o","v","i","d","e"," ","a"," ","m","e",
           "s","s","a","g","e"," ","f","o","r"," ","m","e"," ","t","o"," ","p","r","o",
           "c","e","s","s",".">>,
     EMPTY_MESSAGE |->
         <<"E","m","p","t","y"," ","m","e","s","s","a","g","e">>,
     TOO_LONG |->
         <<"M","e","s","s","a","g","e"," ","i","s"," ","t","o","o"," ","l","o","n","g",
           "."," ","P","l","e","a","s","e"," ","k","e","e","p"," ","i","t"," ","u","n",
           "d","e","r"," ","1","0",",","0","0","0"," ","c","h","a","r","a","c","t","e",
           "r","s",".">>,
     MESSAGE_TOO_LONG |->
         <<"M","e","s","s","a","g","e"," ","t","o","o"," ","l","o","n","g">>,
     COULD_NOT_PROCESS |->
         <<"I"," ","a","p","o","l","o","g","i","z","e",","," ","b","u","t"," ","I"," ",
           "c","o","u","l","d","n","'","t"," ","p","r","o","c","e","s","s"," ","y","o",
           "u","r"," ","r","e","q","u","e","s","t",".">>,
     UNKNOWN |->
         <<"u","n","k","n","o","w","n">>,
     ERROR_PREFIX |->
         <<"I"," ","e","n","c","o","u","n","t","e","r","e","d"," ","a","n"," ","e","r",
           "r","o","r"," ","w","h","i","l","e"," ","p","r","o","c","e","s","s","i","n",
           "g"," ","y","o","u","r"," ","r","e","q","u","e","s","t",":"," ">>]

\* what the endpoint answers when MessageRequest does not validate: the
\* framework's validation error, not a MessageResponse
validation_error == [kind |-> "validation_error"]

\* MessageResponse(response=..., viewport_content=..., agent_used=...)
MessageResponse(response, viewport_content, agent_used) ==
    [kind |-> "message", response |-> response,
     viewport_content |-> viewport_content, agent_used |-> agent_used]

\* result.get(key, default)
dict_get(d, key, default) == IF key \in DOMAIN d THEN d[key] ELSE default

\* chat_endpoint on the request body (message, context), started at time t.
\* reached tells whether RouterAgent.process_query was called; r is what it
\* returned.
chat_endpoint(message, context, c, h, m, t, cfg, verify, llm) ==
    LET rejected(reply) ==
            [reply |-> reply, reached |-> FALSE, cache |-> c, hits |-> h,
             misses |-> m, events |-> << >>, elapsed |-> 0, uncached |-> FALSE,
             routed |-> << >>, exc |-> << >>, written |-> FALSE, stored |-> << >>]
        answered(r) ==
            [reply |-> IF r.propagated
                       THEN MessageResponse(CHAT.ERROR_PREFIX \o r.exc,
                                [type |-> "error", message |-> r.exc], AGENT_ERROR)
                       ELSE MessageResponse(
                                dict_get(r.result, "response", CHAT.COULD_NOT_PROCESS),
                                dict_get(r.result, "viewport_content", << >>),
                                dict_get(r.result, "agent_used", CHAT.UNKNOWN)),
             reached |-> TRUE, cache |-> r.cache, hits |-> r.hits,
             misses |-> r.misses, events |-> r.events, elapsed |-> r.elapsed,
             uncached |-> r.uncached, routed |-> r.routed, exc |-> r.exc,
             written |-> r.written, stored |-> r.stored]
    IN IF Len(message) < 1 \/ Len(message) > max_length
       THEN rejected(validation_error)
       ELSE IF strip(message) = << >>
       THEN rejected(MessageResponse(CHAT.PROVIDE,
                         [type |-> "error", message |-> CHAT.EMPTY_MESSAGE], << >>))
       ELSE IF Len(strip(message)) > max_length
       THEN rejected(MessageResponse(CHAT.TOO_LONG,
                         [type |-> "error", message |-> CHAT.MESSAGE_TOO_LONG], << >>))
       ELSE answered(process_query(strip(message), Context(or_empty(context)),
                                   c, h, m, t, cfg, verify, llm))

\* the messages of the requests: two questions, one of them padded, a
\* message of blanks, the empty message and one of max_length + 1 characters
Messages ==
    {Q_CAREER, <<" ">> \o Q_DEMO \o <<" ", "\n">>, <<" ", "\n">>, << >>,
     [i \in 1..(max_length + 1) |-> "a"]}

\* one request to POST /api/v1/chat
ChatRequest ==
    \* the requests of a run repeat one message, the runs differ in it
    \E message \in IF last.op = "chat" THEN {last.message} ELSE Messages,
       context \in Contexts :
    \* an outcome of a remote call is drawn only when the call is made
    \E verify \in IF chat_endpoint(message, context, cache, hits, misses, now,
                                   config, NoCall, NoCall).reached
                  THEN verify_outcomes(strip(message)) ELSE {NoCall},
       llm \in LlmOutcomes \cup {NoCall} :
    \E r \in {chat_endpoint(message, context, cache, hits, misses, now, config,
                             verify, llm)} :
        /\ r.uncached <=> llm # NoCall
        /\ now + r.elapsed <= MaxClock
        /\ r.hits + r.misses <= MaxGets
        /\ cache' = r.cache
        /\ hits' = r.hits
        /\ misses' = r.misses
        /\ now' = now + r.elapsed
        /\ last' = [op |-> "chat", message |-> message, context |-> context,
                    reply |-> r.reply, reached |-> r.reached, events |-> r.events,
                    exc |-> r.exc,
                    llm_raises |-> llm.raises, llm_text |-> llm.text]
        /\ setValue' = history(IF r.written
                                THEN put(setValue,
                                         generate_key(strip(message), name_of(r.routed)),
                                         r.stored)
                                ELSE setValue, r.cache)
        /\ UNCHANGED <<config, fresh_sets, pure>>

\* requests arriving at the endpoint
SpecChat == Init /\ [][ChatRequest \/ Tick]_vars

-----------------------------------------------------------------------------
(* backend/app/cache.py: QueryCache.get and QueryCache.set called from two *)
(* threads.  No lock is taken, so the statements of the two calls          *)
(* interleave; every statement is taken as one step, and a program counter *)
(* names the line of cache.py the thread executes next.                    *)

Threads == {"t1", "t2"}

\* a thread that is in no call
Idle == [pc |-> "idle", key |-> << >>, response |-> << >>, cached |-> << >>,
         oldest |-> << >>]

\* the next statement of QueryCache.get, for the thread with locals th, at
\* time t: the thread, store and counters after it, whether it raised
\* (KeyError) and whether the call returned
get_step(th, c, h, m, t) ==
    LET i == index_of(c, th.key)
        same == [th |-> th, cache |-> c, hits |-> h, misses |-> m,
                 failed |-> FALSE, returned |-> FALSE]
        raised == [same EXCEPT !.th = Idle, !.failed = TRUE]
    IN CASE th.pc = "get_29" ->      \* if key in self.cache:
                [same EXCEPT !.th.pc = IF i # 0 THEN "get_30" ELSE "get_44"]
         [] th.pc = "get_30" ->      \* cached = self.cache[key]
                IF i = 0 THEN raised
                ELSE [same EXCEPT !.th.pc = "get_31", !.th.cached = c[i]]
         [] th.pc = "get_31" ->      \* age = ...; if age < self.ttl_seconds:
                [same EXCEPT !.th.pc = IF fresh(th.cached, t) THEN "get_34"
                                       ELSE "get_41"]
         [] th.pc = "get_34" ->      \* self.hits += 1; return cached["response"]
                [same EXCEPT !.th = Idle, !.hits = h + 1, !.returned = TRUE]
         [] th.pc = "get_41" ->      \* del self.cache[key]
                IF i = 0 THEN raised
                ELSE [same EXCEPT !.th.pc = "get_44", !.cache = delete_at(c, i)]
         [] th.pc = "get_44" ->      \* self.misses += 1; return None
                [same EXCEPT !.th = Idle, !.misses = m + 1, !.returned = TRUE]

\* the next statement of QueryCache.set; min() raises ValueError on an empty
\* dict and del raises KeyError on a key that is gone
set_step(th, c, h, m, t) ==
    LET same == [th |-> th, cache |-> c, hits |-> h, misses |-> m,
                 failed |-> FALSE, returned |-> FALSE]
        raised == [same EXCEPT !.th = Idle, !.failed = TRUE]
        entry == [key |-> th.key, response |-> th.response, timestamp |-> t]
    IN CASE th.pc = "set_52" ->      \* if len(self.cache) >= self.max_size:
                [same EXCEPT !.th.pc = IF Len(c) >= max_size THEN "set_53"
                                       ELSE "set_57"]
         [] th.pc = "set_53" ->      \* oldest = min(self.cache.items(), ...)
                IF c = << >> THEN raised
                ELSE [same EXCEPT !.th.pc = "set_54",
                                  !.th.oldest = c[oldest(c)].key]
         [] th.pc = "set_54" ->      \* del self.cache[oldest[0]]
                IF index_of(c, th.oldest) = 0 THEN raised
                ELSE [same EXCEPT !.th.pc = "set_57",
                                  !.cache = delete_at(c, index_of(c, th.oldest))]
         [] th.pc = "set_57" ->      \* self.cache[key] = {...}
                [same EXCEPT !.th = Idle, !.returned = TRUE,
                             !.cache = IF index_of(c, th.key) # 0
                                       THEN [c EXCEPT ![index_of(c, th.key)] = entry]
                                       ELSE Append(c, entry)]

\* thread t enters a call of get or of set
Call(t) ==
    /\ last.th[t].pc = "idle"
    /\ last.calls < MaxCalls
    /\ \E query \in CacheQueries, pc \in {"get_29", "set_52"} :
       \E response \in CacheValues(query, CAREER_AGENT) :
           last' = [last EXCEPT
                      !.calls = @ + 1,
                      !.th[t] = [Idle EXCEPT
                                   !.pc = pc,
                                   !.key = generate_key(query, CAREER_AGENT),
                                   !.response = IF pc = "set_52" THEN response
                                                ELSE << >>]]
    /\ UNCHANGED <<cache, hits, misses, now, config, setValue, fresh_sets, pure>>

\* thread t executes the next statement of its call
ThreadStep(t) ==
    /\ last.th[t].pc # "idle"
    /\ \E s \in {IF last.th[t].pc \in {"get_29", "get_30", "get_31", "get_34",
                                       "get_41", "get_44"}
                 THEN get_step(last.th[t], cache, hits, misses, now)
                 ELSE set_step(last.th[t], cache, hits, misses, now)} :
        /\ cache' = s.cache
        /\ hits' = s.hits
        /\ misses' = s.misses
        /\ last' = [last EXCEPT
                      !.th[t] = s.th,
                      !.failed = @ \/ s.failed,
                      !.gets = IF s.returned /\ s.hits + s.misses > hits + misses
                               THEN @ + 1 ELSE @,
                      !.sets = IF s.returned /\ s.hits + s.misses = hits + misses
                               THEN @ + 1 ELSE @]
    /\ UNCHANGED <<now, config, setValue, fresh_sets, pure>>

\* two threads sharing one new QueryCache
InitRace ==
    /\ cache = << >> /\ hits = 0 /\ misses = 0 /\ now = 0
    /\ config = [cache_enabled |-> "on", agent_llm |-> TRUE, router_llm |-> TRUE]
    /\ last = [op |-> "threads", th |-> [t \in Threads |-> Idle],
               calls |-> 0, gets |-> 0, sets |-> 0, failed |-> FALSE]
    /\ setValue = << >> /\ fresh_sets = 0 /\ pure = TRUE

SpecRace == InitRace /\ [][Tick \/ \E t \in Threads : Call(t) \/ ThreadStep(t)]_vars

-----------------------------------------------------------------------------
(* Properties of QueryCache called directly (SpecCache).                   *)

\* C3: a set immediately followed by a get of the same query and handler,
\* less than ttl_seconds later, returns a value equal to the one that was
\* set, adds exactly one to hits and leaves misses unchanged
C3_SetThenGet ==
    [][LET key == generate_key(last.query, last.agent_name)
           i == index_of(cache, key)
       IN (/\ last.op = "set"
           /\ last'.op = "get"
           /\ hits' + misses' = hits + misses + 1
           /\ last'.query = last.query
           /\ last'.agent_name = last.agent_name
           /\ i # 0
           /\ now - cache[i].timestamp < ttl_seconds)
          => /\ last'.ret = Some(setValue[key])
             /\ hits' = hits + 1
             /\ misses' = misses]_vars

\* a get right after the set of its key returned the value that was set
C3_Witness ==
    /\ last.op = "get"
    /\ last.after_set
    /\ ~last.ret.is_none
    /\ last.ret.value = setValue[generate_key(last.query, last.agent_name)]
    /\ hits >= 1

\* C4: a get of a key whose entry has age >= ttl_seconds returns absent,
\* removes that entry, adds exactly one to misses and nothing to hits; a get
\* of a key that has no entry (as after that removal) is a miss as well
C4_ExpiredIsMiss ==
    [][(last'.op = "get" /\ hits' + misses' = hits + misses + 1)
       => LET key == generate_key(last'.query, last'.agent_name)
              i == index_of(cache, key)
          IN /\ (i # 0 /\ now - cache[i].timestamp >= ttl_seconds)
                => /\ last'.ret = None
                   /\ key \notin keys_of(cache')
                   /\ Len(cache') = Len(cache) - 1
                   /\ misses' = misses + 1
                   /\ hits' = hits
             /\ (i = 0)
                => /\ last'.ret = None
                   /\ cache' = cache
                   /\ misses' = misses + 1
                   /\ hits' = hits]_vars

\* a get found its entry expired, removed it and returned absent
C4_Witness ==
    /\ last.op = "get"
    /\ last.expired
    /\ last.ret.is_none
    /\ generate_key(last.query, last.agent_name) \notin keys_of(cache)
    /\ misses >= 1

\* C5: after any sequence of get, set and clear calls the store holds at
\* most max_size entries
C5_AtMostMaxSize == Len(cache) <= max_size

\* more than max_size keys were inserted and the store is full
C5_Witness ==
    /\ last.op = "set"
    /\ fresh_sets > max_size
    /\ Len(cache) = max_size

-----------------------------------------------------------------------------
(* Properties of requests to the router (Spec).                            *)

\* C1: process_query never lets an exception out: every call returns a result
\* with a response text, a render hint (viewport_content.type) and a handler
\* id (agent_used); when the exception is caught by process_query itself the
\* render hint is error and the handler id is "error"
C1_NeverPropagates ==
    last.op = "process_query"
    => /\ ~last.propagated
       /\ {"response", "viewport_content", "agent_used"} \subseteq DOMAIN last.result
       /\ "type" \in DOMAIN last.result.viewport_content
       /\ last.caught
          => /\ last.result.viewport_content.type = "error"
             /\ last.result.agent_used = AGENT_ERROR

\* a handler raised and process_query returned its error result
C1_Witness ==
    /\ last.op = "process_query"
    /\ last.caught
    /\ ~last.propagated
    /\ last.result.agent_used = AGENT_ERROR

\* C2: with caching enabled, a context-free request that follows a
\* context-free request with the same query and a successful model reply,
\* within the ttl, is served from the cache: no model call by the handler,
\* the same response text and render hint, cached = true and
\* processing_time = 0; for every handler category
C2_RepeatServedFromCache ==
    [][(/\ last.op = "process_query"
        /\ last'.op = "process_query"
        /\ last'.time = now
        /\ now' = now + last'.elapsed
        /\ config.cache_enabled = "on"
        /\ ~truthy(last.context)
        /\ ~truthy(last'.context)
        /\ last'.query = last.query
        /\ \E i \in 1..Len(last.events) : last.events[i] = "llm_call"
        /\ ~last.llm_raises
        /\ strip(last.llm_text) # << >>
        /\ last.result.viewport_content.type # "error"
        /\ now - (last.time + last.elapsed) < ttl_seconds)
       => /\ \A i \in 1..Len(last'.events) : last'.events[i] # "llm_call"
          /\ last'.result.response = last.result.response
          /\ last'.result.viewport_content.type
                = last.result.viewport_content.type
          /\ "cached" \in DOMAIN last'.result
          /\ last'.result.cached = TRUE
          /\ last'.result.processing_time = 0]_vars

\* C7: the value held by a cache entry is the value that was passed to set,
\* whatever the callers did to the values returned by get
C7_EntryUnchanged ==
    \A i \in 1..Len(cache) :
        /\ cache[i].key \in DOMAIN setValue
        /\ cache[i].response = setValue[cache[i].key]

\* C8: with no client for the remote model, every handler returns a result
\* whose render hint is not error and whose processing_time is 0
C8_NoClientNotError ==
    (last.op = "process_query" /\ ~config.agent_llm /\ ~last.caught)
    => /\ last.result.viewport_content.type # "error"
       /\ last.result.processing_time = 0

\* C9: in a request the cache lookup comes before the handler's model call,
\* and the result is written to the cache only when the call had no context
\* and the model replied with non-blank text: no result of the rate-limit,
\* generic-failure, blank-reply or no-client branch is written
C9_OnlySuccessWritten ==
    last.op = "process_query"
    => LET ev == last.events
           at(e) == {i \in 1..Len(ev) : ev[i] = e}
       IN /\ \A i \in at("cache_get"), j \in at("llm_call") : i < j
          /\ \A i \in at("cache_set"), j \in at("llm_call") : j < i
          /\ at("cache_set") # {}
             => /\ at("llm_call") # {}
                /\ ~truthy(last.context)
                /\ ~last.llm_raises
                /\ strip(last.llm_text) # << >>
                /\ last.result.viewport_content.type # "error"

\* C10: when the handler's model call fails, the result has render hint
\* error; it carries retry_after, the rate-limit message and error_type
\* "rate_limit" exactly when the error text contains "429", "quota" or
\* "rate limit", and is the generic failure result otherwise
C10_RateLimitDistinct ==
    (/\ last.op = "process_query"
     /\ last.llm_raises
     /\ \E i \in 1..Len(last.events) : last.events[i] = "llm_call")
    => LET result == last.result
           vc == result.viewport_content
           shaped == \/ contains(last.llm_text, KW.http_429)
                     \/ contains(lower(last.llm_text), KW.quota)
                     \/ contains(lower(last.llm_text), KW.rate_limit)
       IN /\ vc.type = "error"
          /\ shaped
             => /\ "retry_after" \in DOMAIN vc
                /\ vc.message = MSG.RATE_LIMIT
                /\ "error_type" \in DOMAIN result
                /\ result.error_type = "rate_limit"
                /\ "error" \notin DOMAIN result
          /\ ~shaped
             => /\ "retry_after" \notin DOMAIN vc
                /\ vc.message # MSG.RATE_LIMIT
                /\ "error_type" \notin DOMAIN result
                /\ "error" \in DOMAIN result

\* the model call failed with a quota error written with a capital letter
C10_Witness ==
    /\ last.op = "process_query"
    /\ last.llm_raises
    /\ last.llm_text = ERR_QUOTA
    /\ \E i \in 1..Len(last.events) : last.events[i] = "llm_call"
    /\ "retry_after" \in DOMAIN last.result.viewport_content

-----------------------------------------------------------------------------
(* Properties of _parse_response called directly (SpecParse).              *)

\* C11: for the strategic_fit handler and a query detected as a job
\* analysis, every non-blank reply that holds no parseable JSON object (no
\* braces, or braces around invalid JSON) yields a result whose structured
\* payload is present with the four lists technicalSkills,
\* relevantExperience, projectEvidence and quantifiableImpact empty and
\* matchPercentage 0
C11_EmptyPayload ==
    LET response == last.response
        parseable == /\ contains(response, <<"{">>)
                     /\ contains(response, <<"}">>)
                     /\ json_loads(brace_slice(response)).ok
        r == last.result
    IN (/\ last.op = "parse_response"
        /\ last.cat = cat_strategic_fit
        /\ job_analysis_query(last.query)
        /\ strip(response) # << >>
        /\ ~parseable)
       => /\ {"kanban_data", "summary_data"} \subseteq DOMAIN r
          /\ r.kanban_data.t = "obj"
          /\ \A k \in {K.technicalSkills, K.relevantExperience,
                       K.projectEvidence, K.quantifiableImpact} :
                 /\ k \in DOMAIN r.kanban_data.v
                 /\ r.kanban_data.v[k] = json_arr(<< >>)
          /\ r.summary_data.t = "obj"
          /\ K.matchPercentage \in DOMAIN r.summary_data.v
          /\ r.summary_data.v[K.matchPercentage] = json_num(0)

-----------------------------------------------------------------------------
(* Properties of route_query called directly (SpecRoute).                  *)

\* C12: whenever the keyword classifier's confidence is > 0.8 (more than 4.8
\* of 6 on conf6), route_query makes no verification call and returns the
\* keyword category; "Tell me about your background and education" has
\* confidence > 0.8 and resolves to profile without verification
C12_FastPath ==
    last.op = "route_query" =>
        /\ 10 * last.keyword.conf6 > 48
               => ~last.called /\ last.agent = last.keyword.agent
        /\ last.query = Q_BACKGROUND
               => /\ 10 * last.keyword.conf6 > 48
                  /\ ~last.called
                  /\ last.agent = cat_profile

\* the background question was routed to profile without the verification
\* call although the router has a client
C12_Witness ==
    /\ last.op = "route_query"
    /\ last.query = Q_BACKGROUND
    /\ last.has_client
    /\ ~last.called
    /\ last.agent = cat_profile

-----------------------------------------------------------------------------
(* Further properties of requests to the router (Spec).                    *)

\* C13: one request makes at most one verification call and at most one
\* handler call to the remote model, the verification call comes before
\* the handler call, and a verification that failed is not made again
C13_AtMostTwoCalls ==
    last.op = "process_query" =>
        LET verifications == {i \in DOMAIN last.events : last.events[i] = "verify_call"}
            handler_calls == {i \in DOMAIN last.events : last.events[i] = "llm_call"}
        IN /\ Cardinality(verifications) <= 1
           /\ Cardinality(handler_calls) <= 1
           /\ \A i \in verifications, j \in handler_calls : i < j

\* a request whose verification call failed went on to the handler's call
C13_Witness ==
    /\ last.op = "process_query"
    /\ last.verify_raises
    /\ \E i, j \in DOMAIN last.events :
           /\ i < j
           /\ last.events[i] = "verify_call"
           /\ last.events[j] = "llm_call"

-----------------------------------------------------------------------------
(* Properties of requests to the chat endpoint (SpecChat).                 *)

\* C14: a message that is empty after trimming or longer than 10,000
\* characters is rejected before classification: process_query is not
\* called, so no classifier, verification, handler, cache or remote-model
\* step happens, and the caller receives a message response, not a fault
C14_RejectedWithMessage ==
    (/\ last.op = "chat"
     /\ strip(last.message) = << >> \/ Len(last.message) > max_length)
    => /\ ~last.reached
       /\ last.events = << >>
       /\ last.reply.kind = "message"

\* C15: the text of the exception behind a failure, raised by the remote
\* call or inside the program, appears in no field of the response
C15_CauseNotLeaked ==
    last.op = "chat" =>
        LET causes == (IF last.llm_raises THEN {last.llm_text} ELSE {})
                      \cup (IF last.exc # << >> THEN {last.exc} ELSE {})
            reply == last.reply
            hint == reply.viewport_content
        IN \A cause \in causes :
               /\ ~contains(reply.response, cause)
               /\ ~contains(reply.agent_used, cause)
               /\ \A f \in DOMAIN hint \cap {"message", "content", "agent"} :
                      ~contains(hint[f], cause)

-----------------------------------------------------------------------------
(* Further properties of route_query called directly (SpecRoute).          *)

\* C17: the score is monotonic: when a question is extended by one of a
\* category's "high" phrases, the category's score for the extended question
\* is at least its score for the question
C17_Monotonic ==
    (last.op = "route_query" /\ last.extended)
    => last.scores[last.added] >= last.before[last.added]

\* an extension that raised the category's score
C17_Witness ==
    /\ last.op = "route_query"
    /\ last.extended
    /\ last.scores[last.added] > last.before[last.added]

\* the reference classifier: a phrase is found when it is a substring of the
\* lower-cased question, every distinct "high" phrase found counts 1.0 and
\* every distinct "medium" phrase 0.5 (2 and 1 half points), once each
reference_found(q, p) ==
    \E i \in 1..(Len(q) - Len(p) + 1) : SubSeq(q, i, i + Len(p) - 1) = p
reference_score(query, a) ==
    LET high == {category_keywords[a].high[i] :
                     i \in 1..Len(category_keywords[a].high)}
        medium == {category_keywords[a].medium[i] :
                       i \in 1..Len(category_keywords[a].medium)}
    IN 2 * Cardinality({p \in high : reference_found(lower(query), p)})
         + Cardinality({p \in medium : reference_found(lower(query), p)})

\* the reference's answer: the highest score wins, ties go to the category
\* declared first, confidence is min(score / 3, 1), and a question that
\* scores nothing goes to profile with confidence 0
reference_route(query) ==
    LET points == [a \in 1..5 |-> reference_score(query, a)]
        top == CHOOSE m \in {points[a] : a \in 1..5} : \A a \in 1..5 : points[a] <= m
        first == CHOOSE a \in 1..5 :
                     points[a] = top /\ \A b \in 1..5 : points[b] = top => a <= b
    IN [scores |-> points,
        agent |-> IF top = 0 THEN cat_profile ELSE category_order[first],
        conf6 |-> IF top <= 6 THEN top ELSE 6]

\* C18: the classifier agrees with the reference on every question: same
\* scores, same category, same confidence, and the confidence is in [0, 1]
C18_MatchesReference ==
    last.op = "route_query" =>
        \E ref \in {reference_route(last.query)} :
            /\ \A a \in 1..5 : last.scores[a] = ref.scores[a]
            /\ last.keyword.agent = ref.agent
            /\ last.keyword.conf6 = ref.conf6
            /\ last.keyword.conf6 \in 0..6

\* the question that scores the same for project and for demo, classified
\* as project
C18_Witness ==
    /\ last.op = "route_query"
    /\ last.query = ROUTE_QUERIES.tie
    /\ last.scores[2] > 0
    /\ last.scores[2] = last.scores[4]
    /\ \A a \in 1..5 : last.scores[a] <= last.scores[2]
    /\ last.keyword.agent = cat_project

\* C19: with confidence at most 0.8 and a router client, route_query returns
\* the name the verification call replied if and only if the call succeeded
\* and the reply, trimmed and lower-cased, is a registered category;
\* otherwise, and without a client, it returns the keyword category.  The
\* same holds for medium (above 0.5) and low confidence.
C19_VerificationDecides ==
    (last.op = "route_query" /\ 10 * last.keyword.conf6 <= 48) =>
        LET agent_name == lower(strip(last.verify_text))
        IN IF /\ last.has_client
              /\ ~last.verify_raises
              /\ agent_name \in Categories
           THEN last.called /\ last.agent = agent_name
           ELSE /\ last.agent = last.keyword.agent
                /\ last.called <=> last.has_client

\* a question of low confidence that the verification call, replying
\* " Career\n", moved away from its keyword category
C19_Witness ==
    /\ last.op = "route_query"
    /\ 10 * last.keyword.conf6 <= 30
    /\ last.has_client
    /\ last.verify_text = V_CAREER
    /\ last.agent = cat_career
    /\ last.keyword.agent # cat_career

-----------------------------------------------------------------------------
(* Properties of the category a request resolves to (Spec).                *)

\* C20: the category a request resolves to is always one of the registered
\* categories, so the "Agent not found" branch of process_query is never
\* taken
C20_RegisteredCategory ==
    last.op = "process_query" =>
        /\ last.routed \in Categories
        /\ ~last.propagated =>
               /\ last.result.agent_used # AGENT_ROUTER_ERROR
               /\ last.result.response # MSG.ROUTING_APOLOGY

\* a request whose verification call replied a name that is not registered
\* ("resume") and that went to its keyword category
C20_Witness ==
    /\ last.op = "process_query"
    /\ last.verify_text = V_RESUME
    /\ "verify_call" \in {last.events[i] : i \in 1..Len(last.events)}
    /\ last.routed = last.keyword.agent

-----------------------------------------------------------------------------
(* Properties of the handlers' use of the cache (Spec).                    *)

\* C21: a request that carries a non-empty context neither reads nor writes
\* the cache: the entries and the hit and miss counters are the same after
\* the request as before it, whatever the remote model did
C21_ContextBypassesCache ==
    [][(/\ last'.op = "process_query"
        /\ last'.context.present
        /\ DOMAIN last'.context.map # {})
       => /\ cache' = cache
          /\ hits' = hits
          /\ misses' = misses
          /\ \A i \in 1..Len(last'.events) :
                 last'.events[i] \notin {"cache_get", "cache_set"}]_vars

\* a request with a context, answered by the remote model through a handler
\* that passes the context on unchanged, while the cache holds an entry of an
\* earlier request
C21_Witness ==
    /\ last.op = "process_query"
    /\ last.context.present
    /\ DOMAIN last.context.map # {}
    /\ last.routed \in {cat_career, cat_demo}
    /\ last.events = <<"llm_call">>
    /\ ~last.llm_raises
    /\ cache # << >>

\* C22: when a handler merges the context it assembled with the context of
\* the caller, every key present in both holds the caller's value in the
\* context sent to the remote model
C22_CallerWins ==
    (last.op = "process_query" /\ last.sent.present) =>
        \A k \in DOMAIN last.context.map \cap DOMAIN last.sent.map :
            last.sent.map[k] = last.context.map[k]

\* C23: without a remote model client a handler invocation touches neither
\* the cache nor the remote model: no QueryCache.get, no QueryCache.set and
\* no remote call, with and without a context
C23_NoClientNoCache ==
    (last.op = "process_query" /\ ~config.agent_llm) =>
        \A i \in 1..Len(last.events) :
            last.events[i] \notin {"cache_get", "cache_set", "llm_call"}

\* C30: the profile and the project handler add a key to the context before
\* they delegate, so a request routed to one of them makes no get and no set
\* on the cache, with or without a caller's context, and calls the remote
\* model whenever a client is configured; after requests routed to these two
\* only, the cache is empty and both counters are 0
C30_ContextAddersBypassCache ==
    [][(last'.op = "process_query"
        /\ last'.routed \in {cat_profile, cat_project})
       => /\ cache' = cache /\ hits' = hits /\ misses' = misses
          /\ \A i \in 1..Len(last'.events) :
                 last'.events[i] \notin {"cache_get", "cache_set"}
          /\ config.agent_llm
                 => \E i \in 1..Len(last'.events) : last'.events[i] = "llm_call"
          /\ last'.only_context_adders
                 => (cache' = << >> /\ hits' = 0 /\ misses' = 0)]_vars

\* a request without a caller's context, with caching enabled and a client
\* configured, that the project handler sent to the remote model
C30_Witness ==
    /\ last.op = "process_query"
    /\ last.routed = cat_project
    /\ last.only_context_adders
    /\ ~last.context.present
    /\ config.cache_enabled = "on"
    /\ config.agent_llm
    /\ \E i \in 1..Len(last.events) : last.events[i] = "llm_call"
    /\ "projects" \in DOMAIN last.sent.map
    /\ cache = << >>

-----------------------------------------------------------------------------
(* Further properties of _parse_response called directly (SpecParse).      *)

\* C24: for every handler a reply that is empty or blank yields a result
\* whose viewport_content.type is error, with the apology as response; the
\* handler's own type is never put on such a result
C24_BlankIsError ==
    (last.op = "parse_response" /\ strip(last.response) = << >>) =>
        /\ last.result.viewport_content.type = "error"
        /\ last.result.response = MSG.EMPTY_APOLOGY

-----------------------------------------------------------------------------
(* Properties of QueryCache called from two threads (SpecRace).            *)

\* C26: when the statements of get and set calls of concurrent requests
\* interleave, the bookkeeping stays consistent: there are never more than
\* max_size entries, hits + misses is the number of get calls that returned,
\* no get or set raises, and no key has two entries
C26_ConsistentUnderInterleaving ==
    last.op = "threads" =>
        /\ Len(cache) <= max_size
        /\ hits + misses = last.gets
        /\ ~last.failed
        /\ \A i, j \in 1..Len(cache) : cache[i].key = cache[j].key => i = j

-----------------------------------------------------------------------------
(* Properties of the cache key (SpecSpelling).                             *)

\* C27: the key depends only on the handler name and the lower-cased,
\* trimmed query.  A get right after a set for the same handler, with a query
\* that differs from the set's at most in letter case and surrounding white
\* space, returns the value that was set while the entry is fresh; a get for
\* another handler or another query text does not hit the entry of the set
C27_KeyIsHandlerAndNormalizedQuery ==
    [][(/\ last.op = "set"
        /\ last'.op = "get"
        /\ hits' + misses' = hits + misses + 1)
       => LET same == /\ last'.agent_name = last.agent_name
                      /\ strip(lower(last'.query)) = strip(lower(last.query))
              set_key == last.agent_name \o <<":">> \o strip(lower(last.query))
              at == {i \in 1..Len(cache) : cache[i].key = set_key}
          IN /\ (same /\ \E i \in at : now - cache[i].timestamp < ttl_seconds)
                => /\ last'.ret = Some(setValue[set_key])
                   /\ hits' = hits + 1
             /\ (~same /\ Len(cache) = 1)
                => /\ at # {}
                   /\ last'.ret = None
                   /\ misses' = misses + 1
                   /\ cache' = cache]_vars

\* a get that hit the entry of the set just before it, made with a query
\* text that differs from the set's in letter case and white space
C27_Witness ==
    /\ last.op = "get"
    /\ last.respelled
    /\ ~last.ret.is_none
    /\ hits >= 1

-----------------------------------------------------------------------------
(* Further properties of QueryCache called directly (SpecCache).           *)

\* C28: every get adds one to exactly one of hits and misses, set changes
\* neither, and clear empties the store and zeroes both; hits + misses is the
\* number of gets since the last clear, the hit rate is hits over that number
\* (0 when it is 0), and a get on the emptied store is a miss that leaves the
\* store empty
C28_CountersCountGets ==
    [][/\ (now' = now /\ last'.op = "get")
          => /\ \/ hits' = hits + 1 /\ misses' = misses
                \/ hits' = hits /\ misses' = misses + 1
             /\ cache = << >>
                => (misses' = misses + 1 /\ last'.ret = None /\ cache' = << >>)
       /\ (now' = now /\ last'.op = "set")
          => (hits' = hits /\ misses' = misses)
       /\ (now' = now /\ last'.op = "clear")
          => (cache' = << >> /\ hits' = 0 /\ misses' = 0)
       /\ last'.op \in {"get", "set", "clear"}
          => /\ hits' + misses' = last'.gets
             /\ get_hit_rate(hits', misses')
                    = IF last'.gets = 0 THEN <<0, 1>> ELSE <<hits', last'.gets>>]_vars

\* a hit and a miss counted by two gets
C28_Witness ==
    /\ last.op = "get"
    /\ last.gets = 2
    /\ hits = 1
    /\ misses = 1
    /\ get_hit_rate(hits, misses) = <<1, 2>>

\* C29: a set on a key the store already holds replaces that entry only: it
\* gets the value and the time of the call, every other entry stays as it
\* was and the number of entries stays the same, at capacity too
C29_ReplaceKeepsOthers ==
    [][(/\ now' = now
        /\ last'.op = "set"
        /\ generate_key(last'.query, last'.agent_name) \in keys_of(cache))
       => LET key == generate_key(last'.query, last'.agent_name)
          IN /\ Len(cache') = Len(cache)
             /\ \A i \in 1..Len(cache) :
                    cache[i].key # key
                        => \E j \in 1..Len(cache') : cache'[j] = cache[i]
             /\ \E j \in 1..Len(cache') :
                    /\ cache'[j].key = key
                    /\ cache'[j].timestamp = now
                    /\ cache'[j].response = setValue'[key]]_vars

====
